---------------------------- MODULE Spec2Model ----------------------------
(***************************************************************************)
(* A model of clrp-sa: the Solution encoding with its cost/feasibility     *)
(* evaluator (solution.py), the neighbourhood operators Swap, Insert and   *)
(* 2-Opt (lsoperator.py) and the simulated-annealing driver                *)
(* (heuristicsolver.py), over small CLRP instances (instance.py).          *)
(*                                                                         *)
(* Python lists are 0-based: At(s, i) reads s[i] the way Python does, so   *)
(* the index arithmetic of the source is kept as written.  Solution        *)
(* objects and the Python lists they refer to live in two heaps (sols,     *)
(* lists) addressed by reference, so that aliasing is part of the model.   *)
(* Node and Instance objects never change after construction: a list holds *)
(* node references (the node's name), an Instance is referred to by name.  *)
(***************************************************************************)
EXTENDS Integers, Sequences, FiniteSets, TLC

VARIABLES
    instance,           \* reference to the Instance every Solution shares (its name)
    lists,              \* heap of Python lists: reference -> sequence of node references
    sols,               \* heap of Solution objects: reference -> fields
    pc,                 \* where the modelled caller stands
    solution,           \* reference: the Solution the last call acted on
    sequence_arg,       \* reference: the list handed to set_solution
    result,             \* what the last call returned (operators: [sol, feasible])
    raised,             \* the exception the last call raised, or NoError
    sa,                 \* the driver's parameters (SimulatedAnnealingParameters)
    current_solution,   \* driver: reference
    best_solution,      \* driver: reference
    current_temp,       \* driver: temperature, a rational [num, den]
    i_count,            \* driver: iterations at this temperature
    n_count,            \* driver: cooling steps without improvement
    hist                \* history of the run, read by the properties only

vars == <<instance, lists, sols, pc, solution, sequence_arg, result, raised,
          sa, current_solution, best_solution, current_temp, i_count,
          n_count, hist>>

-----------------------------------------------------------------------------
(* Bounds of the model *)

\* longest sequence handed to set_solution in the evaluator specification
MaxEvalLen == 6
\* longest sequence of an operator's input solution
MaxOpLen == 6
\* largest non-improvement cap N of a driver run
MaxN == 2
\* largest start temperature T0 of a driver run (TF = 1, a = 1/2)
MaxT0 == 4

\* the greedy solver's instances: the greatest capacity of the first depot,
\* the greatest vehicle capacity and the greatest demand of a customer
MaxCap == 4

MaxVehicle == 3

MaxDemand == 2

\* the most calls of append_node on one Solution
MaxBuildLen == 3

-----------------------------------------------------------------------------
(* Nodes: node.py, depot.py, customer.py, dummyzero.py *)

DPT == "Depot"
CSTMR == "Customer"
DZR == "DummyZero"

Depot(name, x, y, cost, capacity) ==
    [type |-> DPT, name |-> name, x |-> x, y |-> y, cost |-> cost,
     capacity |-> capacity]

Customer(name, x, y, demand) ==
    [type |-> CSTMR, name |-> name, x |-> x, y |-> y, demand |-> demand]

DummyZero(name, x, y) ==
    [type |-> DZR, name |-> name, x |-> x, y |-> y]

\* f"Z{i}"
DummyName(i) == CASE i = 0 -> "Z0" [] i = 1 -> "Z1" [] i = 2 -> "Z2"
                  [] i = 3 -> "Z3" [] i = 4 -> "Z4" [] i = 5 -> "Z5"
                  [] i = 6 -> "Z6" [] i = 7 -> "Z7" [] i = 8 -> "Z8"
                  [] OTHER -> "Zn"

\* Python's None
None == [type |-> "NoneType"]

\* float('inf')
Infinity == 1000000

Plus(a, b) == IF a >= Infinity \/ b >= Infinity THEN Infinity ELSE a + b

\* s[i] with Python's indexing: 0-based, a negative index counts from the end
At(s, i) == IF i < 0 THEN s[Len(s) + i + 1] ELSE s[i + 1]

InRange(s, i) == -Len(s) <= i /\ i < Len(s)

Range(s) == {s[i] : i \in 1..Len(s)}

-----------------------------------------------------------------------------
(* Instance: instance.py *)

\* math.ceil(math.sqrt(n)) for a natural number n
CeilSqrt(n) == CHOOSE k \in 0..n : k * k >= n /\ (k = 0 \/ (k - 1) * (k - 1) < n)

euclidean_distance_ceil(node1, node2) ==
    CeilSqrt((node1.x - node2.x) * (node1.x - node2.x)
             + (node1.y - node2.y) * (node1.y - node2.y))

distance_matrix_of(nodes) ==
    [p \in {<<nodes[i], nodes[j]>> : i, j \in 1..Len(nodes)}
           \ {<<nodes[i], nodes[i]>> : i \in 1..Len(nodes)}
       |-> euclidean_distance_ceil(p[1], p[2])]

create_distance_matrix(depots, customers) == distance_matrix_of(depots \o customers)

Instance(name, depots, customers, vehicle_capacity, route_setup_cost) ==
    [name |-> name, depots |-> depots, customers |-> customers,
     nodes |-> depots \o customers,
     vehicle_capacity |-> vehicle_capacity,
     route_setup_cost |-> route_setup_cost,
     distance_matrix |-> create_distance_matrix(depots, customers)]

get_distance(inst, node1, node2) ==
    IF <<node1, node2>> \in DOMAIN inst.distance_matrix
    THEN inst.distance_matrix[<<node1, node2>>]
    ELSE Infinity

-----------------------------------------------------------------------------
(* Solution: solution.py.  The evaluator, as functions of the fields it reads *)

\* Solution._create_dummy_zeros: math.ceil(aggregate_demands / vehicle_capacity)
RECURSIVE aggregate_demands(_, _)
aggregate_demands(customers, i) ==
    IF i > Len(customers) THEN 0
    ELSE customers[i].demand + aggregate_demands(customers, i + 1)

number_dummy_zeros(inst) ==
    (aggregate_demands(inst.customers, 1) + inst.vehicle_capacity - 1)
        \div inst.vehicle_capacity

\* the pool holds references to DummyZero(f"Z{i}", 0, 0), i = 0, 1, ...
create_dummy_zeros(inst) ==
    [i \in 1..number_dummy_zeros(inst) |-> DummyName(i - 1)]

\* the node a reference leads to: a depot or customer of the instance, or a
\* dummy zero of a Solution's pool
NodeOf(inst, ref) ==
    IF \E i \in 1..Len(inst.nodes) : inst.nodes[i].name = ref
    THEN inst.nodes[CHOOSE i \in 1..Len(inst.nodes) : inst.nodes[i].name = ref]
    ELSE DummyZero(ref, 0, 0)

NodesOfList(inst, refs) == [i \in 1..Len(refs) |-> NodeOf(inst, refs[i])]

\* Solution._get_distance: None (no return) when either node is a dummy zero
get_distance_or_none(inst, node1, node2) ==
    IF node1.type # DZR /\ node2.type # DZR
    THEN [is_none |-> FALSE, value |-> get_distance(inst, node1, node2)]
    ELSE [is_none |-> TRUE, value |-> 0]

\* Solution.is_valid_solution, the scan: no customer before the first depot
RECURSIVE valid_scan(_, _, _)
valid_scan(sequence, i, seen_depot) ==
    IF i > Len(sequence) THEN TRUE
    ELSE IF sequence[i].type = DPT THEN valid_scan(sequence, i + 1, TRUE)
    ELSE IF sequence[i].type = CSTMR /\ ~seen_depot THEN FALSE
    ELSE valid_scan(sequence, i + 1, seen_depot)

\* (mutant) consecutive dummy zeros stay
keep_consecutive(sequence, i, reduced_list, prev_dzr) == sequence

\* Solution._reduce_list, first loop: consecutive dummy zeros become one
RECURSIVE reduce_consecutive(_, _, _, _)
reduce_consecutive(sequence, i, reduced_list, prev_dzr) ==
    IF i > Len(sequence) THEN reduced_list
    ELSE IF sequence[i].type = DZR
         THEN IF ~prev_dzr
              THEN reduce_consecutive(sequence, i + 1,
                                      Append(reduced_list, sequence[i]), TRUE)
              ELSE reduce_consecutive(sequence, i + 1, reduced_list, TRUE)
         ELSE reduce_consecutive(sequence, i + 1,
                                 Append(reduced_list, sequence[i]), FALSE)

\* list.pop(i)
Pop(s, i) == [k \in 1..(Len(s) - 1) |-> IF k <= i THEN s[k] ELSE s[k + 1]]

\* Solution._reduce_list, second loop: a dummy zero directly after a depot goes
RECURSIVE reduce_after_depot(_, _)
reduce_after_depot(reduced_list, i) ==
    IF ~(i < Len(reduced_list) - 1) THEN reduced_list
    ELSE IF At(reduced_list, i).type = DPT /\ At(reduced_list, i + 1).type = DZR
         THEN reduce_after_depot(Pop(reduced_list, i + 1), i)
         ELSE reduce_after_depot(reduced_list, i + 1)

\* (mutant) only the last node goes
reduce_trailing_once(reduced_list) ==
    IF reduced_list # <<>> /\ At(reduced_list, -1).type # CSTMR
    THEN SubSeq(reduced_list, 1, Len(reduced_list) - 1)
    ELSE reduced_list

\* Solution._reduce_list, third loop: trailing nodes go until a customer is last
RECURSIVE reduce_trailing(_)
reduce_trailing(reduced_list) ==
    IF reduced_list # <<>> /\ At(reduced_list, -1).type # CSTMR
    THEN reduce_trailing(SubSeq(reduced_list, 1, Len(reduced_list) - 1))
    ELSE reduced_list

\* (mutant) trailing nodes stay
reduce_list_untrimmed(sequence) ==
    IF sequence = <<>> THEN <<>>
    ELSE reduce_after_depot(reduce_consecutive(sequence, 1, <<>>, FALSE), 0)

reduce_list(sequence) ==
    IF sequence = <<>> THEN <<>>
    ELSE reduce_trailing(
             reduce_after_depot(
                 reduce_consecutive(sequence, 1, <<>>, FALSE), 0))

NoError == "NoError"

\* partial_cost += self._get_distance(...): adding None raises TypeError
add_distance(st, d) ==
    IF d.is_none THEN [st EXCEPT !.raised = "TypeError"]
    ELSE [st EXCEPT !.partial_cost = Plus(@, d.value)]

\* (mutant) the block is feasible only while depot capacity is left over
partial_feasible_strict(depot_capacity) == depot_capacity > 0

\* partial_feasible = (depot_capacity >= 0)
partial_feasible(depot_capacity) == depot_capacity >= 0

\* vehicle_capacity -= current_node.demand; depot_capacity -= current_node.demand
serve(st, demand) ==
    [st EXCEPT !.vehicle_capacity = @ - demand, !.depot_capacity = @ - demand]

\* "setup new route": route_setup_cost, the leg depot -> customer, the demand
setup_new_route(inst, depot, st, current_node) ==
    serve(add_distance([st EXCEPT !.partial_cost = Plus(@, inst.route_setup_cost)],
                       get_distance_or_none(inst, depot, current_node)),
          current_node.demand)

\* "close previous route": the leg previous_node -> depot
close_previous_route(inst, depot, st) ==
    add_distance(st, get_distance_or_none(inst, st.previous_node, depot))

\* the implicit break, after the previous route was closed: a new route is set
\* up and vehicle_capacity = self.instance.vehicle_capacity - current_node.demand
reopen_route(inst, depot, closed, current_node) ==
    IF closed.raised # NoError THEN closed
    ELSE [setup_new_route(inst, depot, closed, current_node)
            EXCEPT !.vehicle_capacity = inst.vehicle_capacity - current_node.demand]

\* (mutant) a customer after a customer is always reached from the customer
customer_after_customer_joined(inst, depot, st, current_node) ==
    serve(add_distance(st, get_distance_or_none(inst, st.previous_node,
                                                current_node)),
          current_node.demand)

\* a customer after a customer: the implicit break, or the leg between the two
customer_after_customer(inst, depot, st, current_node) ==
    IF st.vehicle_capacity - current_node.demand < 0
    THEN reopen_route(inst, depot, close_previous_route(inst, depot, st), current_node)
    ELSE serve(add_distance(st, get_distance_or_none(inst, st.previous_node,
                                                     current_node)),
               current_node.demand)

\* Solution._calc_cost_cap_subsequence, the branches of its loop body.
\* st holds the locals partial_cost, vehicle_capacity, depot_capacity, previous_node
visit_branches(inst, depot, st, current_node) ==
    IF current_node.type = CSTMR
    THEN IF st.previous_node = None THEN [st EXCEPT !.raised = "AttributeError"]
         ELSE IF st.previous_node.type = DZR
         THEN setup_new_route(inst, depot, st, current_node)
         ELSE IF st.previous_node.type = CSTMR
         THEN customer_after_customer(inst, depot, st, current_node)
         ELSE IF st.previous_node.type = DPT
         THEN setup_new_route(inst, depot, st, current_node)
         ELSE st
    ELSE IF current_node.type = DZR
    THEN IF st.previous_node = None THEN [st EXCEPT !.raised = "AttributeError"]
         ELSE [close_previous_route(inst, depot, st)
                 EXCEPT !.vehicle_capacity = inst.vehicle_capacity]
    ELSE st

\* previous_node = sequence[i], unless the body raised
end_of_visit(st, next, current_node) ==
    IF next.raised # NoError THEN [st EXCEPT !.raised = next.raised]
    ELSE [next EXCEPT !.previous_node = current_node]

\* Solution._calc_cost_cap_subsequence, one pass of its for loop
visit_node(inst, depot, st, current_node) ==
    end_of_visit(st, visit_branches(inst, depot, st, current_node), current_node)

\* for i in range(depot_idx, last_customer_idx + 1)
RECURSIVE subsequence_loop(_, _, _, _, _, _)
subsequence_loop(inst, sequence, depot, i, last_customer_idx, st) ==
    IF i > last_customer_idx \/ st.raised # NoError THEN st
    ELSE subsequence_loop(inst, sequence, depot, i + 1, last_customer_idx,
                          visit_node(inst, depot, st, At(sequence, i)))

\* while sequence[last_customer_idx].type != NodeType.CSTMR: last_customer_idx -= 1
RECURSIVE last_customer_scan(_, _)
last_customer_scan(sequence, last_customer_idx) ==
    IF ~InRange(sequence, last_customer_idx)
    THEN [idx |-> last_customer_idx, raised |-> "IndexError"]
    ELSE IF At(sequence, last_customer_idx).type # CSTMR
    THEN last_customer_scan(sequence, last_customer_idx - 1)
    ELSE [idx |-> last_customer_idx, raised |-> NoError]

\* the locals of _calc_cost_cap_subsequence before its loop
initial_locals(inst, depot) ==
    [partial_cost |-> depot.cost,
     vehicle_capacity |-> inst.vehicle_capacity,
     depot_capacity |-> depot.capacity,
     previous_node |-> None,
     raised |-> NoError]

\* return (partial_cost, partial_feasible)
block_result(st) ==
    [cost |-> st.partial_cost,
     feasible |-> partial_feasible(st.depot_capacity),
     raised |-> st.raised]

block_from(inst, sequence, depot_idx, scan) ==
    IF scan.raised # NoError
    THEN [cost |-> 0, feasible |-> FALSE, raised |-> scan.raised]
    ELSE block_result(
             subsequence_loop(inst, sequence, At(sequence, depot_idx), depot_idx,
                              scan.idx, initial_locals(inst, At(sequence, depot_idx))))

\* Solution._calc_cost_cap_subsequence: (partial_cost, partial_feasible), or raised
calc_cost_cap_subsequence(inst, sequence, depot_idx, last_idx) ==
    block_from(inst, sequence, depot_idx,
               last_customer_scan(sequence,
                   IF last_idx >= Len(sequence) THEN last_idx - 1 ELSE last_idx))

\* while idx < len(sequence) and sequence[idx].type != NodeType.DPT: idx += 1
RECURSIVE next_depot_idx(_, _)
next_depot_idx(sequence, idx) ==
    IF idx < Len(sequence) /\ At(sequence, idx).type # DPT
    THEN next_depot_idx(sequence, idx + 1)
    ELSE idx

\* (mutant) every depot opens a block, followed by a customer or not
opens_block_always(sequence, idx) == TRUE

\* does the segmentation loop open a block at idx?  sequence[idx + 1] is read
\* whenever sequence[idx] is a depot
opens_block(sequence, idx) == At(sequence, idx + 1).type = CSTMR

\* cost += partial_cost; self._feasible = self._feasible and partial_feasibility
add_block(acc, part) ==
    IF part.raised # NoError THEN [acc EXCEPT !.raised = part.raised]
    ELSE [acc EXCEPT !.cost = Plus(@, part.cost), !.feasible = @ /\ part.feasible]

\* Solution._calculate_cost, the segmentation loop over the reduced sequence.
\* acc holds cost and self._feasible
RECURSIVE cost_loop(_, _, _, _)
RECURSIVE block_at(_, _, _, _, _)
cost_loop(inst, sequence, idx, acc) ==
    IF ~(idx < Len(sequence)) \/ acc.raised # NoError THEN acc
    ELSE IF At(sequence, idx).type = DPT
         THEN IF ~InRange(sequence, idx + 1)
              THEN [acc EXCEPT !.raised = "IndexError"]
              ELSE IF opens_block(sequence, idx)
              THEN block_at(inst, sequence, idx, next_depot_idx(sequence, idx + 1), acc)
              ELSE cost_loop(inst, sequence, idx + 1, acc)
         ELSE cost_loop(inst, sequence, idx + 1, acc)

\* the block from start_index to end_index is costed, the loop goes on at end_index
block_at(inst, sequence, start_index, end_index, acc) ==
    cost_loop(inst, sequence, end_index,
              add_block(acc, calc_cost_cap_subsequence(inst, sequence,
                                                       start_index, end_index)))

\* self._cost = cost, which a raise does not reach
end_of_cost(acc, old_cost) ==
    IF acc.raised # NoError THEN [acc EXCEPT !.cost = old_cost] ELSE acc

\* Solution._calculate_cost: the values left in _cost and _feasible, given the
\* _sequence, the flag _is_valid and the _cost held before the call
calculate_cost(inst, sequence, is_valid, old_cost) ==
    IF ~is_valid
    THEN [cost |-> Infinity, feasible |-> FALSE, raised |-> NoError]
    ELSE end_of_cost(cost_loop(inst, reduce_list(sequence), 0,
                               [cost |-> 0, feasible |-> TRUE, raised |-> NoError]),
                     old_cost)

-----------------------------------------------------------------------------
(* The heap: Solution objects and the lists they refer to.  A heap h is    *)
(* [lists, sols]; both map references 1, 2, ... to values.                 *)

\* a fresh reference: the first one not in use
NewRef(store) ==
    CHOOSE r \in 1..(Cardinality(DOMAIN store) + 1) : r \notin DOMAIN store

StoreAt(store, r, value) == [heap |-> store @@ (r :> value), ref |-> r]

\* a new list object holding value
AllocList(h, value) ==
    [heap |-> [h EXCEPT !.lists = @ @@ (NewRef(h.lists) :> value)],
     ref |-> NewRef(h.lists)]

\* a new Solution object with the fields obj
AllocSol(h, obj) ==
    [heap |-> [h EXCEPT !.sols = @ @@ (NewRef(h.sols) :> obj)],
     ref |-> NewRef(h.sols)]

\* the fields Solution.__init__ sets, its _sequence the new list l
fresh_fields(inst, l) ==
    [sequence |-> l, is_valid |-> TRUE, cost |-> 0, feasible |-> TRUE,
     dummy_zeros |-> create_dummy_zeros(inst)]

solution_init_with(inst, l) == AllocSol(l.heap, fresh_fields(inst, l.ref))

\* Solution.__init__
solution_init(h, inst) == solution_init_with(inst, AllocList(h, <<>>))

\* Solution.get_solution: the reference of the list, not a copy
get_solution(h, self) == h.sols[self].sequence

\* Solution.get_quality
get_quality(h, self) == <<h.sols[self].cost, h.sols[self].feasible>>

\* (mutant) cost is not reset to 0.0 before the blocks are added
store_quality_added(h, self, r) ==
    [heap |-> [h EXCEPT !.sols[self].cost = Plus(@, r.cost),
                        !.sols[self].feasible = r.feasible],
     raised |-> r.raised]

\* self._cost and self._feasible as _calculate_cost leaves them
store_quality(h, self, r) ==
    [heap |-> [h EXCEPT !.sols[self].cost = r.cost,
                        !.sols[self].feasible = r.feasible],
     raised |-> r.raised]

\* Solution._calculate_cost on the object self
do_calculate_cost(h, inst, self) ==
    store_quality(h, self,
        calculate_cost(inst, NodesOfList(inst, h.lists[h.sols[self].sequence]),
                       h.sols[self].is_valid, h.sols[self].cost))

\* Solution.set_solution: self._sequence = sequence; self._calculate_cost()
set_solution(h, inst, self, sequence) ==
    do_calculate_cost([h EXCEPT !.sols[self].sequence = sequence], inst, self)

store_valid(h, self, ok) ==
    [heap |-> [h EXCEPT !.sols[self].is_valid = ok], ret |-> ok]

\* Solution.is_valid_solution: sets and returns self._is_valid
is_valid_solution(h, inst, self) ==
    store_valid(h, self,
        valid_scan(NodesOfList(inst, h.lists[h.sols[self].sequence]), 1, FALSE))

\* the fields of the object a reference leads to, its list read through
Deref(h, self) ==
    [sequence |-> h.lists[h.sols[self].sequence],
     is_valid |-> h.sols[self].is_valid,
     cost |-> h.sols[self].cost,
     feasible |-> h.sols[self].feasible,
     dummy_zeros |-> h.sols[self].dummy_zeros]

\* What Python's reference counting leaves after a call: the objects the
\* caller still refers to.  References are renumbered in the order of the
\* roots, which keeps who aliases whom and forgets only the numbers.
RECURSIVE Dedupe(_, _)
Dedupe(s, acc) ==
    IF s = <<>> THEN acc
    ELSE Dedupe(Tail(s), IF Head(s) \in Range(acc) THEN acc ELSE Append(acc, Head(s)))

IndexOf(s, x) == CHOOSE i \in 1..Len(s) : s[i] = x

Renumbered(h, sol_roots, list_roots, live, live_lists) ==
    [heap |-> [lists |-> [j \in 1..Len(live_lists) |-> h.lists[live_lists[j]]],
               sols |-> [i \in 1..Len(live) |->
                           [h.sols[live[i]] EXCEPT !.sequence =
                                IndexOf(live_lists, @)]]],
     sol_refs |-> [i \in 1..Len(sol_roots) |-> IndexOf(live, sol_roots[i])],
     list_refs |-> [i \in 1..Len(list_roots) |-> IndexOf(live_lists, list_roots[i])]]

CollectLive(h, sol_roots, list_roots, live) ==
    Renumbered(h, sol_roots, list_roots, live,
               Dedupe([i \in 1..Len(live) |-> h.sols[live[i]].sequence]
                      \o list_roots, <<>>))

Collect(h, sol_roots, list_roots) ==
    CollectLive(h, sol_roots, list_roots, Dedupe(sol_roots, <<>>))

Heap == [lists |-> lists, sols |-> sols]

-----------------------------------------------------------------------------
(* Building a Solution: append_node and finish_initial_solution *)

\* Solution.append_node: self._sequence.append(node), in place
append_node(h, self, node) ==
    [h EXCEPT !.lists[h.sols[self].sequence] = Append(@, node)]

RECURSIVE append_nodes(_, _, _)
append_nodes(h, self, nodes) ==
    IF nodes = <<>> THEN h
    ELSE append_nodes(append_node(h, self, Head(nodes)), self, Tail(nodes))

\* (mutant) the dummy zero appended stays in the pool
append_dummy_zero_kept(h, self) ==
    IF h.sols[self].dummy_zeros = <<>> THEN h
    ELSE append_node(h, self, Head(h.sols[self].dummy_zeros))

\* Solution.append_dummy_zero: the first dummy zero of the pool, if there is
\* one, is popped and appended to the sequence
append_dummy_zero(h, self) ==
    IF h.sols[self].dummy_zeros = <<>> THEN h
    ELSE [append_node(h, self, Head(h.sols[self].dummy_zeros))
             EXCEPT !.sols[self].dummy_zeros = Tail(@)]

\* list.insert(i, x) for 0 <= i <= len
InsertAt(s, i, x) == SubSeq(s, 1, i) \o <<x>> \o SubSeq(s, i + 1, Len(s))

\* the first i in range(len - 1) with a depot at i and a customer at i + 1,
\* or -1 when the for loop ends without inserting
RECURSIVE first_depot_customer(_, _)
first_depot_customer(nodes, i) ==
    IF i >= Len(nodes) - 1 THEN -1
    ELSE IF At(nodes, i).type = DPT /\ At(nodes, i + 1).type = CSTMR THEN i
    ELSE first_depot_customer(nodes, i + 1)

\* the sequence with dummy_zero inserted at i + 1, or appended when i = -1
place_dummy_zero(sequence, i, dummy_zero) ==
    IF i >= 0 THEN InsertAt(sequence, i + 1, dummy_zero)
    ELSE Append(sequence, dummy_zero)

\* Solution.finish_initial_solution, its while loop over the pool
RECURSIVE place_dummy_zeros(_, _, _)
place_dummy_zeros(inst, sequence, pool) ==
    IF pool = <<>> THEN sequence
    ELSE place_dummy_zeros(inst,
             place_dummy_zero(sequence,
                              first_depot_customer(NodesOfList(inst, sequence), 0),
                              Head(pool)),
             Tail(pool))

\* Solution.finish_initial_solution: the pool is emptied into the sequence,
\* then self._calculate_cost()
finish_initial_solution(h, inst, self) ==
    do_calculate_cost(
        [h EXCEPT !.lists[h.sols[self].sequence] =
                      place_dummy_zeros(inst, @, h.sols[self].dummy_zeros),
                  !.sols[self].dummy_zeros = <<>>],
        inst, self)

-----------------------------------------------------------------------------
(* GreedySolver.solve: greedysolver.py.  The locals of the loops are the   *)
(* fields of a record g; hangs is set when the inner loop cannot end.      *)

\* HRSTCSolution(instance): the Solution of solution.py
HRSTCSolution(h, inst) == solution_init(h, inst)

\* [node for node in nodes if node not in names]
RECURSIVE not_in(_, _, _)
not_in(nodes, names, i) ==
    IF i > Len(nodes) THEN <<>>
    ELSE (IF nodes[i].name \in Range(names) THEN <<>> ELSE <<nodes[i]>>)
         \o not_in(nodes, names, i + 1)

NoDepot == [found |-> FALSE, node |-> None, distance |-> Infinity]

\* the loop 'for depot in unused_depots' over the distances of one customer:
\* the first depot at the smallest distance below min_distance
RECURSIVE closest_depot(_, _, _, _, _)
closest_depot(inst, customer, depots, i, closest) ==
    IF i > Len(depots) THEN closest
    ELSE IF get_distance(inst, customer, depots[i]) < closest.distance
         THEN closest_depot(inst, customer, depots, i + 1,
                  [found |-> TRUE, node |-> depots[i],
                   distance |-> get_distance(inst, customer, depots[i])])
         ELSE closest_depot(inst, customer, depots, i + 1, closest)

\* the (customer, min_distance) pair appended to unused_depots[depot], if any
pair_if_closest(closest, depot, customer) ==
    IF closest.found /\ closest.node = depot
    THEN <<<<customer, closest.distance>>>>
    ELSE <<>>

\* unused_depots[depot] after the loop over unassigned_customers
RECURSIVE closest_customers(_, _, _, _, _)
closest_customers(inst, depot, depots, customers, i) ==
    IF i > Len(customers) THEN <<>>
    ELSE pair_if_closest(closest_depot(inst, customers[i], depots, 1, NoDepot),
                         depot, customers[i])
         \o closest_customers(inst, depot, depots, customers, i + 1)

\* list.sort(key=lambda x: x[1]) is stable: pair goes before the first pair
\* at a greater distance
RECURSIVE insert_by_distance(_, _)
insert_by_distance(sorted, pair) ==
    IF sorted = <<>> THEN <<pair>>
    ELSE IF pair[2] < Head(sorted)[2] THEN <<pair>> \o sorted
    ELSE <<Head(sorted)>> \o insert_by_distance(Tail(sorted), pair)

RECURSIVE sort_by_distance(_, _)
sort_by_distance(pairs, i) ==
    IF i = 0 THEN <<>>
    ELSE insert_by_distance(sort_by_distance(pairs, i - 1), pairs[i])

sorted_customers(pairs) == sort_by_distance(pairs, Len(pairs))

\* the key of max: (len(unused_depots[depot]), depot.capacity)
depot_key(inst, depot, depots, customers) ==
    <<Len(closest_customers(inst, depot, depots, customers, 1)), depot.capacity>>

key_greater(a, b) == a[1] > b[1] \/ (a[1] = b[1] /\ a[2] > b[2])

\* max(unused_depots.keys(), key=...): the first depot of the greatest key
RECURSIVE max_depot(_, _, _, _, _)
max_depot(inst, depots, customers, i, selected) ==
    IF i > Len(depots) THEN selected
    ELSE IF key_greater(depot_key(inst, depots[i], depots, customers),
                        depot_key(inst, selected, depots, customers))
         THEN max_depot(inst, depots, customers, i + 1, depots[i])
         ELSE max_depot(inst, depots, customers, i + 1, selected)

selected_depot(inst, depots, customers) ==
    max_depot(inst, depots, customers, 2, depots[1])

\* the loop 'for customer in unused_depots[selected_depot]': the first
\* customer at the smallest distance to last_appended_node
RECURSIVE nearest_customer(_, _, _, _, _)
nearest_customer(inst, pairs, last_appended_node, i, selected) ==
    IF i > Len(pairs) THEN selected
    ELSE IF get_distance(inst, pairs[i][1], last_appended_node) < selected.distance
         THEN nearest_customer(inst, pairs, last_appended_node, i + 1,
                  [found |-> TRUE, node |-> pairs[i][1],
                   distance |-> get_distance(inst, pairs[i][1], last_appended_node)])
         ELSE nearest_customer(inst, pairs, last_appended_node, i + 1, selected)

\* [c for c in unused_depots[selected_depot] if c[0] != selected_customer]
RECURSIVE pairs_without(_, _, _)
pairs_without(pairs, customer, i) ==
    IF i > Len(pairs) THEN <<>>
    ELSE (IF pairs[i][1] = customer THEN <<>> ELSE <<pairs[i]>>)
         \o pairs_without(pairs, customer, i + 1)

\* used_depots.append(selected_depot); is_cap_reached = True
depot_used(g) ==
    [g EXCEPT !.used_depots = Append(@, g.depot.name), !.is_cap_reached = TRUE]

\* solution.append_dummy_zero() and a new route from the depot
route_break(inst, self, g) ==
    [g EXCEPT !.heap = append_dummy_zero(@, self),
              !.current_route_cap = inst.vehicle_capacity,
              !.last_appended_node = g.depot]

\* the customer is appended to the sequence and assigned
customer_assigned(self, g, customer) ==
    [g EXCEPT !.cap = @ - customer.demand,
              !.current_route_cap = @ - customer.demand,
              !.pairs = pairs_without(@, customer, 1),
              !.last_appended_node = customer,
              !.heap = append_node(@, self, customer.name),
              !.assigned_customers = Append(@, customer.name)]

\* cap - selected_customer.demand > 0
fits_depot(cap, customer) == cap - customer.demand > 0

\* a route break that changes nothing: the vehicle is empty and at the depot,
\* so the same customer is selected and found too large again, without end
same_again(inst, g) ==
    /\ g.current_route_cap = inst.vehicle_capacity
    /\ g.last_appended_node = g.depot

\* one pass of 'while not is_cap_reached' with the customer selected
after_selection(inst, self, g, selected) ==
    IF ~selected.found THEN depot_used(g)
    ELSE IF fits_depot(g.cap, selected.node)
         THEN IF g.current_route_cap - selected.node.demand < 0
              THEN IF same_again(inst, g) THEN [g EXCEPT !.hangs = TRUE]
                   ELSE route_break(inst, self, g)
              ELSE customer_assigned(self, g, selected.node)
         ELSE depot_used(g)

\* while not is_cap_reached
RECURSIVE inner_loop(_, _, _)
inner_loop(inst, self, g) ==
    IF g.is_cap_reached \/ g.hangs THEN g
    ELSE inner_loop(inst, self,
             after_selection(inst, self, g,
                 nearest_customer(inst, g.pairs, g.last_appended_node, 1, NoDepot)))

\* the locals after solution.append_node(selected_depot)
depot_opened(inst, self, g, depot, pairs) ==
    [g EXCEPT !.heap = append_node(@, self, depot.name),
              !.depot = depot,
              !.pairs = pairs,
              !.cap = depot.capacity,
              !.last_appended_node = depot,
              !.current_route_cap = inst.vehicle_capacity,
              !.is_cap_reached = FALSE]

with_depot(inst, self, g, depots, customers, depot) ==
    depot_opened(inst, self, g, depot,
        sorted_customers(closest_customers(inst, depot, depots, customers, 1)))

\* one pass of the outer while loop
outer_pass(inst, self, g, depots, customers) ==
    inner_loop(inst, self,
        with_depot(inst, self, g, depots, customers,
                   selected_depot(inst, depots, customers)))

\* while len(assigned_customers) < len(instance.customers)
\*       and len(used_depots) < len(instance.depots)
RECURSIVE outer_loop(_, _, _)
outer_loop(inst, self, g) ==
    IF g.hangs
       \/ ~(Len(g.assigned_customers) < Len(inst.customers)
            /\ Len(g.used_depots) < Len(inst.depots))
    THEN g
    ELSE outer_loop(inst, self,
             outer_pass(inst, self, g,
                        not_in(inst.depots, g.used_depots, 1),
                        not_in(inst.customers, g.assigned_customers, 1)))

\* the locals before the outer loop
greedy_locals(made) ==
    [heap |-> made.heap, used_depots |-> <<>>, assigned_customers |-> <<>>,
     depot |-> None, pairs |-> <<>>, cap |-> 0, last_appended_node |-> None,
     current_route_cap |-> 0, is_cap_reached |-> FALSE, hangs |-> FALSE]

\* for depot in instance.depots: if depot not in solution.get_solution():
\*     solution.append_node(depot)
RECURSIVE append_unused_depots(_, _, _, _)
append_unused_depots(h, self, depots, i) ==
    IF i > Len(depots) THEN h
    ELSE IF depots[i].name \in Range(h.lists[get_solution(h, self)])
         THEN append_unused_depots(h, self, depots, i + 1)
         ELSE append_unused_depots(append_node(h, self, depots[i].name), self,
                                   depots, i + 1)

-----------------------------------------------------------------------------
(* The operators Swap, Insert and 2-Opt.  apply returns                    *)
(* [heap, solution, feasible, raised, edited]: the pair (Solution, bool)   *)
(* it returns, or the error it raises; edited is the sequence after the    *)
(* edit, when apply got as far as editing.                                 *)

NoEdit == <<"no edit">>

\* (mutant) new_solution._sequence = solution.get_solution(), the same list
share_list(h, l) == [heap |-> h, ref |-> l]

\* solution.get_solution()[:], a new list with the same items
copy_list(h, l) == AllocList(h, h.lists[l])

\* new_solution.dummy_zeros = []
empty_pool(dummy_zeros) == <<>>

attach_sequence(new, c) ==
    [heap |-> [c.heap EXCEPT !.sols[new].sequence = c.ref,
                             !.sols[new].dummy_zeros = empty_pool(@)],
     ref |-> new]

init_from(made, old_solution) ==
    attach_sequence(made.ref, copy_list(made.heap, get_solution(made.heap, old_solution)))

\* LocalSearchOperator.init_new_solution
init_new_solution(h, inst, old_solution) ==
    init_from(solution_init(h, inst), old_solution)

\* LocalSearchOperator.get_old_solution
get_old_solution(h, old_solution, edited) ==
    [heap |-> h, solution |-> old_solution, feasible |-> h.sols[old_solution].feasible,
     raised |-> NoError, edited |-> edited]

\* apply raises: there is no return value
raise(h, error) ==
    [heap |-> h, solution |-> 0, feasible |-> FALSE, raised |-> error,
     edited |-> NoEdit]

Min(a, b) == IF a <= b THEN a ELSE b

Max(a, b) == IF a >= b THEN a ELSE b

\* the 0-based positions >= i of the nodes whose type is in types, in order
RECURSIVE positions_of(_, _, _)
positions_of(nodes, types, i) ==
    IF i >= Len(nodes) THEN <<>>
    ELSE IF At(nodes, i).type \in types
         THEN <<i>> \o positions_of(nodes, types, i + 1)
         ELSE positions_of(nodes, types, i + 1)

\* random.sample(population, 2): two entries at distinct places of the
\* population, in either order; <<>> stands for the ValueError that
\* random.sample raises on a population of fewer than 2
random_sample2(population) ==
    IF Len(population) < 2 THEN {<<>>}
    ELSE {<<population[pq[1]], population[pq[2]]>> :
             pq \in {x \in (1..Len(population)) \X (1..Len(population)) :
                        x[1] # x[2]}}

\* (mutant) a candidate is returned valid or not
accepts_any(is_valid) == TRUE

\* if new_solution.is_valid_solution(): return (new_solution, new_sol_feasible)
accepts_candidate(is_valid) == is_valid

candidate_or_old(v, new, new_sol_feasible, old_solution) ==
    IF accepts_candidate(v.ret)
    THEN [heap |-> v.heap, solution |-> new, feasible |-> new_sol_feasible,
          raised |-> NoError, edited |-> v.heap.lists[get_solution(v.heap, new)]]
    ELSE get_old_solution(v.heap, old_solution, v.heap.lists[get_solution(v.heap, new)])

after_set_solution(r, inst, new, old_solution) ==
    IF r.raised # NoError THEN raise(r.heap, r.raised)
    ELSE candidate_or_old(is_valid_solution(r.heap, inst, new), new,
                          r.heap.sols[new].feasible, old_solution)

\* the tail of every apply: new_solution.set_solution(sequence); the feasible
\* flag is read; the candidate is returned if is_valid_solution(), else the input
evaluate_candidate(h, inst, new, old_solution) ==
    after_set_solution(set_solution(h, inst, new, get_solution(h, new)),
                       inst, new, old_solution)

\* the edited list written back: sequence is the list new_solution holds
edit_sequence(h, new, edited) ==
    [h EXCEPT !.lists[get_solution(h, new)] = edited]

\* the sequence a Solution holds, as nodes
NodesOfSolution(h, inst, self) == NodesOfList(inst, h.lists[get_solution(h, self)])

\* SwapOperator.apply: weighted_pool = swap_candidates_dpt + swap_candidates_cstmr * 2
weighted_pool(nodes) ==
    positions_of(nodes, {DPT}, 0) \o positions_of(nodes, {CSTMR, DZR}, 0)
        \o positions_of(nodes, {CSTMR, DZR}, 0)

\* (mutant) only sequence[index1] = node2
overwritten(sequence, index1, index2) ==
    [sequence EXCEPT ![index1 + 1] = sequence[index2 + 1]]

\* sequence[index1] = node2; sequence[index2] = node1
swapped(sequence, index1, index2) ==
    [sequence EXCEPT ![index1 + 1] = sequence[index2 + 1],
                     ![index2 + 1] = sequence[index1 + 1]]

swap_edit(n, inst, old_solution, sample) ==
    IF sample = <<>> THEN raise(n.heap, "ValueError")
    ELSE evaluate_candidate(
             edit_sequence(n.heap, n.ref,
                           swapped(n.heap.lists[get_solution(n.heap, n.ref)],
                                   sample[1], sample[2])),
             inst, n.ref, old_solution)

\* the outcomes of random.sample(weighted_pool, 2) on the input's sequence
swap_samples(h, inst, old_solution) ==
    random_sample2(weighted_pool(NodesOfSolution(h, inst, old_solution)))

\* SwapOperator.apply, for the outcome sample of random.sample
swap_apply(h, inst, old_solution, sample) ==
    swap_edit(init_new_solution(h, inst, old_solution), inst, old_solution, sample)

\* InsertOperator.apply: the candidates are the nodes that are no dummy zeros
insert_candidates(nodes) == positions_of(nodes, {DPT, CSTMR}, 0)

\* (mutant) index2 is not adjusted after the pop
inserted_unadjusted(sequence, index1, index2) ==
    InsertAt(Pop(sequence, index1), Min(index2, Len(sequence) - 1), sequence[index1 + 1])

\* sequence.pop(index1); if index1 < index2: index2 -= 1;
\* sequence.insert(index2, node1)
inserted(sequence, index1, index2) ==
    InsertAt(Pop(sequence, index1),
             IF index1 < index2 THEN index2 - 1 ELSE index2,
             sequence[index1 + 1])

insert_edit(n, inst, old_solution, sample) ==
    IF Len(insert_candidates(NodesOfSolution(n.heap, inst, n.ref))) < 2
    THEN get_old_solution(n.heap, old_solution, NoEdit)
    ELSE evaluate_candidate(
             edit_sequence(n.heap, n.ref,
                           inserted(n.heap.lists[get_solution(n.heap, n.ref)],
                                    sample[1], sample[2])),
             inst, n.ref, old_solution)

insert_samples(h, inst, old_solution) ==
    random_sample2(insert_candidates(NodesOfSolution(h, inst, old_solution)))

\* InsertOperator.apply, for the outcome sample of random.sample
insert_apply(h, inst, old_solution, sample) ==
    insert_edit(init_new_solution(h, inst, old_solution), inst, old_solution, sample)

\* TwoOptOperator.apply, the inner scan for j in range(i + 1, len(sequence)):
\* the customers met before a depot or the last element ends the scan, and
\* whether the scan ended on its break (else the range ran out)
RECURSIVE scan_customers(_, _, _)
scan_customers(nodes, j, found) ==
    IF j >= Len(nodes) THEN [customers |-> found, broke |-> FALSE]
    ELSE IF At(nodes, j).type = DPT \/ j = Len(nodes) - 1
         THEN [customers |-> found, broke |-> TRUE]
         ELSE IF At(nodes, j).type = CSTMR
              THEN scan_customers(nodes, j + 1, Append(found, j))
              ELSE scan_customers(nodes, j + 1, found)

\* customers_of_depot[node], for the depot at position i
customers_of_depot(nodes, i) == scan_customers(nodes, i + 1, <<>>).customers

is_candidate_depot(scan) == scan.broke /\ Len(scan.customers) >= 2

\* candidate_depots: the positions i of the depots appended by the scan
RECURSIVE candidate_depots(_, _)
candidate_depots(nodes, i) ==
    IF i >= Len(nodes) THEN <<>>
    ELSE IF At(nodes, i).type = DPT
            /\ is_candidate_depot(scan_customers(nodes, i + 1, <<>>))
         THEN <<i>> \o candidate_depots(nodes, i + 1)
         ELSE candidate_depots(nodes, i + 1)

\* sequence[start_idx + 1:end_idx] = reversed(sequence[start_idx + 1:end_idx])
reversed_between(sequence, start_idx, end_idx) ==
    [k \in 1..Len(sequence) |->
        IF start_idx + 2 <= k /\ k <= end_idx
        THEN sequence[start_idx + 2 + end_idx - k]
        ELSE sequence[k]]

\* the outcomes of the random choices of 2-Opt: <<selected depot's position>>
\* followed by the two sampled customer positions; <<>> without candidates
two_opt_samples(h, inst, old_solution) ==
    IF candidate_depots(NodesOfSolution(h, inst, old_solution), 0) = <<>> THEN {<<>>}
    ELSE UNION {{<<i>> \o c :
                    c \in random_sample2(
                              customers_of_depot(NodesOfSolution(h, inst, old_solution), i))} :
                 i \in Range(candidate_depots(NodesOfSolution(h, inst, old_solution), 0))}

two_opt_edit(n, inst, old_solution, sample) ==
    IF candidate_depots(NodesOfSolution(n.heap, inst, n.ref), 0) = <<>>
    THEN get_old_solution(n.heap, old_solution, NoEdit)
    ELSE IF Len(customers_of_depot(NodesOfSolution(n.heap, inst, n.ref),
                                   sample[1])) < 2
    THEN get_old_solution(n.heap, old_solution, NoEdit)
    ELSE evaluate_candidate(
             edit_sequence(n.heap, n.ref,
                           reversed_between(n.heap.lists[get_solution(n.heap, n.ref)],
                                            Min(sample[2], sample[3]),
                                            Max(sample[2], sample[3]))),
             inst, n.ref, old_solution)

\* TwoOptOperator.apply, for the outcome sample of its random choices
two_opt_apply(h, inst, old_solution, sample) ==
    two_opt_edit(init_new_solution(h, inst, old_solution), inst, old_solution, sample)

-----------------------------------------------------------------------------
(* HeuristicSolver.solve: the decisions of its loop.  Temperatures are     *)
(* fractions <<numerator, denominator>>.                                   *)

\* self.operators
operators == <<"INSERT", "SWAP", "2-OPT">>

\* self.local_search
local_search == <<"SWAP", "INSERT">>

\* operator.apply(old_solution), for the outcome sample of its random choices
operator_apply(h, inst, op, old_solution, sample) ==
    IF op = "SWAP" THEN swap_apply(h, inst, old_solution, sample)
    ELSE IF op = "INSERT" THEN insert_apply(h, inst, old_solution, sample)
    ELSE two_opt_apply(h, inst, old_solution, sample)

operator_samples(h, inst, op, old_solution) ==
    IF op = "SWAP" THEN swap_samples(h, inst, old_solution)
    ELSE IF op = "INSERT" THEN insert_samples(h, inst, old_solution)
    ELSE two_opt_samples(h, inst, old_solution)

\* (cost, feasible) = get_quality(); if not feasible: cost += P
penalized(h, self, P) ==
    IF h.sols[self].feasible THEN h.sols[self].cost ELSE Plus(h.sols[self].cost, P)

\* delta = new_sol_cost - curr_sol_cost
delta(new_sol_cost, curr_sol_cost) == new_sol_cost - curr_sol_cost

\* (mutant) every candidate is accepted
accepted_always(d, draw) == TRUE

\* the acceptance step: delta <= 0, or random_r < exp_value, which the draw
\* of random_r decides either way for a finite delta > 0
accepted(d, draw) == d <= 0 \/ draw

\* (mutant) every feasible current solution becomes the best one
improves_feasible(curr_sol_cost, best_sol_cost, curr_sol_feasible) ==
    curr_sol_feasible

\* if curr_sol_cost < best_sol_cost and curr_sol_feasible
improves(curr_sol_cost, best_sol_cost, curr_sol_feasible) ==
    curr_sol_cost < best_sol_cost /\ curr_sol_feasible

\* (mutant) the local search takes any cheaper result for the best one
lowers_any(curr_sol_cost, best_sol_cost, is_feasible) ==
    curr_sol_cost < best_sol_cost

\* the local search: if is_feasible: ... if curr_sol_cost < best_sol_cost
lowers(curr_sol_cost, best_sol_cost, is_feasible) ==
    is_feasible /\ curr_sol_cost < best_sol_cost

\* current_temp > TF
above(temp, TF) == temp[1] > TF * temp[2]

\* (mutant) current_temp = current_temp / A
heated(A, temp) == <<A[2] * temp[1], A[1] * temp[2]>>

\* current_temp = A * current_temp
cooled(A, temp) == <<A[1] * temp[1], A[2] * temp[2]>>

\* (mutant) an infeasible result of the local search is not kept
search_result_feasible(r, current) == IF r.feasible THEN r.solution ELSE current

\* (current_solution, is_feasible) = self.local_search[1].apply(...)
search_result(r, current) == r.solution

\* (mutant) the second operator is always applied to the result of the first
second_input_first(r, best) == r.solution

\* the Solution the second operator of the local search is applied to: the
\* result of the first if that came back feasible, else best_solution
second_input(r, best) == IF r.feasible THEN r.solution ELSE best

-----------------------------------------------------------------------------
(* Inputs: the instances and sequences the specifications range over *)

\* the sequences of shorter, and those of length n - 1 with one more member
Extended(S, n, shorter) ==
    shorter \cup {Append(p[1], p[2]) :
                    p \in {q \in {t \in shorter : Len(t) = n - 1} \X S :
                              q[2] \notin Range(q[1])}}

\* every sequence of at most n distinct members of S
RECURSIVE InjectiveSeqs(_, _)
InjectiveSeqs(S, n) ==
    IF n = 0 THEN {<<>>}
    ELSE Extended(S, n, InjectiveSeqs(S, n - 1))

\* the node references a sequence of a Solution of inst can hold
RefsOf(inst) ==
    {inst.nodes[i].name : i \in 1..Len(inst.nodes)} \cup Range(create_dummy_zeros(inst))

DepotRefs(inst) == {inst.depots[i].name : i \in 1..Len(inst.depots)}

CustomerRefs(inst) == {inst.customers[i].name : i \in 1..Len(inst.customers)}

EvalCustomers ==
    <<Customer("C1", 0, 3, 1), Customer("C2", 4, 3, 1), Customer("C3", 3, 0, 2)>>

\* two depots with two or three customers; the first depot's capacity and the
\* vehicle capacity vary, so that blocks over capacity and implicit breaks occur
EvalInstances ==
    {Instance(<<"eval3", 3, 2>>,
              <<Depot("D1", 0, 0, 10, 3), Depot("D2", 6, 0, 20, 4)>>,
              EvalCustomers, 2, 5)}
    \cup
    {Instance(<<"eval2", cap, vc>>,
              <<Depot("D1", 0, 0, 10, cap), Depot("D2", 6, 0, 20, 4)>>,
              <<Customer("C1", 0, 3, 1), Customer("C2", 4, 3, 2)>>, vc, 5) :
        cap \in {1, 3}, vc \in {2, 3}}

\* the end-to-end scenario: 2 depots whose capacities cover all demand,
\* 4 customers of equal demand d, vehicle capacity 2 * d
ScenarioInstances ==
    {Instance(<<"scenario", 4 * d, 2 * d>>,
              <<Depot("D1", 0, 0, 10, 4 * d), Depot("D2", 6, 0, 20, 4 * d)>>,
              <<Customer("C1", 0, 3, d), Customer("C2", 4, 3, d),
                Customer("C3", 3, 0, d), Customer("C4", 6, 4, d)>>,
              2 * d, 5) : d \in {1, 2}}

\* [D1, C1, C2, Break, C3, C4, D2], for every naming of the nodes
ScenarioSequences(inst) ==
    {<<d[1], c[1], c[2], z, c[3], c[4], d[2]>> :
        d \in {e \in InjectiveSeqs(DepotRefs(inst), 2) : Len(e) = 2},
        c \in {e \in InjectiveSeqs(CustomerRefs(inst), 4) : Len(e) = 4},
        z \in Range(create_dummy_zeros(inst))}

\* the sequences handed to set_solution in the evaluator specification
EvalSequences(inst) ==
    IF inst \in ScenarioInstances THEN ScenarioSequences(inst)
    ELSE InjectiveSeqs(RefsOf(inst), MaxEvalLen)

\* the operators' instances: 2 depots, 3 customers and one dummy zero, the
\* first depot too small for all three customers; and one depot without customers
OpsInstances ==
    {Instance(<<"ops", 2, 4>>,
              <<Depot("D1", 0, 0, 10, 2), Depot("D2", 6, 0, 20, 4)>>,
              EvalCustomers, 4, 5),
     Instance(<<"single", 1, 1>>, <<Depot("D1", 0, 0, 10, 1)>>, <<>>, 1, 5)}

\* the depots and customers appended to a new Solution before
\* finish_initial_solution adds the dummy zeros: at most MaxOpLen nodes in all
OpsSequences(inst) ==
    InjectiveSeqs(DepotRefs(inst) \cup CustomerRefs(inst),
                  MaxOpLen - Len(create_dummy_zeros(inst)))

\* the solver's instances: the trivial one (1 depot, 2 customers, ample
\* capacity), one with a depot too small for the only customer, and one depot
\* without customers
DriverInstances ==
    {Instance(<<"trivial", 4, 2>>, <<Depot("D1", 0, 0, 10, 4)>>,
              <<Customer("C1", 0, 3, 1), Customer("C2", 4, 3, 1)>>, 2, 5),
     Instance(<<"tight", 1, 2>>,
              <<Depot("D1", 0, 0, 10, 1), Depot("D2", 6, 0, 20, 4)>>,
              <<Customer("C1", 0, 3, 2)>>, 2, 5),
     Instance(<<"single", 1, 1>>, <<Depot("D1", 0, 0, 10, 1)>>, <<>>, 1, 5)}

\* the initial solutions: every depot and customer once, no customer before
\* the first depot
DriverSequences(inst) ==
    {s \in InjectiveSeqs(DepotRefs(inst) \cup CustomerRefs(inst), Len(inst.nodes)) :
        /\ Len(s) = Len(inst.nodes)
        /\ valid_scan(NodesOfList(inst, s), 1, FALSE)}

\* the parameters: a = 1/2, TF = 1 < T0 <= MaxT0, N <= MaxN
Parameters ==
    [a : {<<1, 2>>}, Iiter : {1}, P : {50}, T0 : 2..MaxT0, TF : {1},
     Nnon_improving : 0..MaxN]

\* the greedy solver's instances: two depots and three customers; the first
\* depot's capacity, the vehicle capacity and two demands vary, so that depots
\* fill up, routes break and a customer can be too large for a vehicle
GreedyInstances ==
    {Instance(<<"greedy", c1, c2, vc, d1, d2>>,
              <<Depot("D1", 0, 0, 10, c1), Depot("D2", 6, 0, 20, c2)>>,
              <<Customer("C1", 0, 3, d1), Customer("C2", 4, 3, d2),
                Customer("C3", 3, 0, 2)>>, vc, 5) :
        c1 \in 1..MaxCap, c2 \in {2, 5}, vc \in 1..MaxVehicle,
        d1 \in 1..MaxDemand, d2 \in 1..MaxDemand}

AllInstances ==
    EvalInstances \cup ScenarioInstances \cup OpsInstances \cup DriverInstances
        \cup GreedyInstances

InstanceTable ==
    [n \in {inst.name : inst \in AllInstances} |->
        CHOOSE inst \in AllInstances : inst.name = n]

\* the Instance the variable instance refers to
Inst == InstanceTable[instance]

-----------------------------------------------------------------------------
(* SpecEval: one Solution, built by Solution(instance), and the calls      *)
(* set_solution(sequence) and is_valid_solution() on it.                   *)

NoDriver ==
    /\ sa = [a |-> <<1, 2>>, Iiter |-> 1, P |-> 0, T0 |-> 1, TF |-> 1,
             Nnon_improving |-> 0]
    /\ current_solution = 0
    /\ best_solution = 0
    /\ current_temp = <<1, 1>>
    /\ i_count = 0
    /\ n_count = 0

driver_vars == <<sa, current_solution, best_solution, current_temp, i_count, n_count>>

\* the heap after made = Solution(inst) and a caller's list arg
WithArg(made, arg) == Collect(arg.heap, <<made.ref>>, <<arg.ref>>)

FreshAndList(made, s) == WithArg(made, AllocList(made.heap, s))

FreshWithArg(inst, s) ==
    FreshAndList(solution_init([lists |-> <<>>, sols |-> <<>>], inst), s)

InitEvalHeap(kept) ==
    /\ lists = kept.heap.lists
    /\ sols = kept.heap.sols
    /\ solution = kept.sol_refs[1]
    /\ sequence_arg = kept.list_refs[1]

InitEval ==
    /\ instance \in {inst.name : inst \in EvalInstances \cup ScenarioInstances}
    /\ \E s \in EvalSequences(Inst) : InitEvalHeap(FreshWithArg(Inst, s))
    /\ pc = "Solution"
    /\ result = None
    /\ raised = NoError
    /\ hist = [pc |-> "new", quality |-> <<0, TRUE>>, held |-> <<>>,
               given |-> <<>>]
    /\ NoDriver

EvalHeap(kept) ==
    /\ lists' = kept.heap.lists
    /\ sols' = kept.heap.sols
    /\ solution' = kept.sol_refs[1]
    /\ sequence_arg' = kept.list_refs[1]

AfterSetSolutionOf(r, arg) ==
    /\ EvalHeap(Collect(r.heap, <<solution>>, <<arg>>))
    /\ raised' = r.raised

AfterSetSolution(r) == AfterSetSolutionOf(r, sequence_arg)

AfterIsValid(r) ==
    /\ sols' = r.heap.sols
    /\ result' = r.ret

\* what the caller has seen before a call: the call made last, the pair
\* get_quality returned after it, the nodes the Solution held and the nodes
\* of the list handed to this call
Noted(given) ==
    hist' = [pc |-> pc, quality |-> get_quality(Heap, solution),
             held |-> lists[get_solution(Heap, solution)], given |-> given]

\* solution.set_solution(sequence_arg)
SetSolution ==
    /\ pc \in {"Solution", "set_solution", "is_valid_solution"}
    /\ raised = NoError
    /\ AfterSetSolution(set_solution(Heap, Inst, solution, sequence_arg))
    /\ pc' = "set_solution"
    /\ result' = None
    /\ Noted(lists[sequence_arg])
    /\ UNCHANGED <<instance, driver_vars>>

Reversed(s) == [i \in 1..Len(s) |-> s[Len(s) + 1 - i]]

AfterSetOther(arg) ==
    AfterSetSolutionOf(set_solution(arg.heap, Inst, solution, arg.ref), arg.ref)

\* sequence_arg = sequence_arg[::-1]; solution.set_solution(sequence_arg):
\* the Solution is handed another list than the one it holds
SetSolutionReversed ==
    /\ pc \in {"set_solution", "is_valid_solution"}
    /\ raised = NoError
    /\ AfterSetOther(AllocList(Heap, Reversed(lists[sequence_arg])))
    /\ pc' = "set_solution"
    /\ result' = None
    /\ Noted(Reversed(lists[sequence_arg]))
    /\ UNCHANGED <<instance, driver_vars>>

\* solution.is_valid_solution()
IsValidSolution ==
    /\ pc \in {"Solution", "set_solution", "is_valid_solution"}
    /\ raised = NoError
    /\ AfterIsValid(is_valid_solution(Heap, Inst, solution))
    /\ pc' = "is_valid_solution"
    /\ Noted(lists[sequence_arg])
    /\ UNCHANGED <<instance, lists, solution, sequence_arg, raised, driver_vars>>

NextEval == SetSolution \/ SetSolutionReversed \/ IsValidSolution

SpecEval == InitEval /\ [][NextEval]_vars

-----------------------------------------------------------------------------
(* SpecOps: a Solution built with append_node and finish_initial_solution, *)
(* and the operators applied to it.  After an apply the caller goes on     *)
(* with the returned Solution or with the one it had, as the solver does.  *)
(* hist records what a caller could have noted down before the call: the   *)
(* fields of the input, the operator, and the nodes of the first sequence. *)

BuiltWith(made, inst, s) ==
    finish_initial_solution(append_nodes(made.heap, made.ref, s), inst, made.ref)

\* Solution(inst), append_node for every node of s, finish_initial_solution()
Built(inst, s) ==
    BuiltWith(solution_init([lists |-> <<>>, sols |-> <<>>], inst), inst, s)

InitOpsHeap(kept) ==
    /\ lists = kept.heap.lists
    /\ sols = kept.heap.sols
    /\ solution = kept.sol_refs[1]

\* a customer stands before the first depot
CustomerBeforeDepot(nodes) ==
    \E i \in 1..Len(nodes) :
        /\ nodes[i].type = CSTMR
        /\ \A j \in 1..(i - 1) : nodes[j].type # DPT

InitOps ==
    /\ instance \in {inst.name : inst \in OpsInstances}
    /\ \E s \in OpsSequences(Inst) :
          InitOpsHeap(Collect(Built(Inst, s).heap, <<1>>, <<>>))
    /\ pc = "ready"
    /\ sequence_arg = 0
    /\ result = None
    /\ raised = NoError
    /\ hist = [nodes |-> Range(Deref(Heap, solution).sequence),
               valid |-> ~CustomerBeforeDepot(NodesOfSolution(Heap, Inst, solution)),
               op |-> "none", before |-> None, edited |-> NoEdit]
    /\ NoDriver

OpsHeap(kept) ==
    /\ lists' = kept.heap.lists
    /\ sols' = kept.heap.sols
    /\ solution' = kept.sol_refs[1]

Returned(kept, feasible) ==
    /\ OpsHeap(kept)
    /\ result' = [solution |-> kept.sol_refs[2], feasible |-> feasible]

\* the state after operator.apply(solution) came back with r
Applied(op, r) ==
    /\ hist' = [hist EXCEPT !.op = op, !.before = Deref(Heap, solution),
                            !.edited = r.edited]
    /\ raised' = r.raised
    /\ IF r.raised # NoError
       THEN /\ pc' = "raised"
            /\ result' = None
            /\ OpsHeap(Collect(r.heap, <<solution>>, <<>>))
       ELSE /\ pc' = "applied"
            /\ Returned(Collect(r.heap, <<solution, r.solution>>, <<>>), r.feasible)
    /\ UNCHANGED <<instance, sequence_arg, driver_vars>>

\* SwapOperator.apply(solution)
SwapApply ==
    /\ pc = "ready"
    /\ \E sample \in swap_samples(Heap, Inst, solution) :
          Applied("SWAP", swap_apply(Heap, Inst, solution, sample))

\* InsertOperator.apply(solution)
InsertApply ==
    /\ pc = "ready"
    /\ \E sample \in insert_samples(Heap, Inst, solution) :
          Applied("INSERT", insert_apply(Heap, Inst, solution, sample))

\* TwoOptOperator.apply(solution)
TwoOptApply ==
    /\ pc = "ready"
    /\ \E sample \in two_opt_samples(Heap, Inst, solution) :
          Applied("2-OPT", two_opt_apply(Heap, Inst, solution, sample))

NextCall ==
    /\ pc' = "ready"
    /\ result' = None
    /\ hist' = [hist EXCEPT !.op = "none", !.before = None, !.edited = NoEdit]
    /\ UNCHANGED <<instance, sequence_arg, raised, driver_vars>>

\* the caller goes on with the returned Solution
TakeCandidate ==
    /\ pc = "applied"
    /\ OpsHeap(Collect(Heap, <<result.solution>>, <<>>))
    /\ NextCall

\* the caller drops the returned Solution and keeps its own
KeepCurrent ==
    /\ pc = "applied"
    /\ OpsHeap(Collect(Heap, <<solution>>, <<>>))
    /\ NextCall

NextOps == SwapApply \/ InsertApply \/ TwoOptApply \/ TakeCandidate \/ KeepCurrent

SpecOps == InitOps /\ [][NextOps]_vars

-----------------------------------------------------------------------------
(* SpecSA: HeuristicSolver.solve(solution).  pc is the place in the loop:  *)
(* "loop" before a micro-iteration, "update" before the best-solution      *)
(* update, "cool" before the test i_count == I, "exit" before the exit     *)
(* test.  hist holds the cost best_solution had before the last step.      *)

\* I = Iiter * len(solution.get_solution())
I == sa.Iiter * Len(Deref(Heap, solution).sequence)

\* no local search was run
NoSearch == [ran |-> FALSE, best |-> None, first |-> None, input |-> None,
             last |-> None, last_feasible |-> FALSE]

\* no acceptance step was taken
NoStep == [before |-> None, candidate |-> None, delta |-> 0, draw |-> FALSE,
           fell_back |-> FALSE]

InitSAHeap(kept) ==
    /\ lists = kept.heap.lists
    /\ sols = kept.heap.sols
    /\ solution = kept.sol_refs[1]
    /\ current_solution = kept.sol_refs[1]
    /\ best_solution = kept.sol_refs[1]

InitSA ==
    /\ instance \in {inst.name : inst \in DriverInstances}
    /\ \E s \in DriverSequences(Inst) :
          InitSAHeap(Collect(Built(Inst, s).heap, <<1>>, <<>>))
    /\ sa \in Parameters
    /\ current_temp = <<sa.T0, 1>>
    /\ i_count = 0
    /\ n_count = 0
    /\ pc = "loop"
    /\ sequence_arg = 0
    /\ result = None
    /\ raised = NoError
    /\ hist = [best_cost |-> sols[best_solution].cost, step |-> NoStep,
               search |-> NoSearch]

SAHeap(kept) ==
    /\ lists' = kept.heap.lists
    /\ sols' = kept.heap.sols
    /\ solution' = kept.sol_refs[1]
    /\ current_solution' = kept.sol_refs[2]
    /\ best_solution' = kept.sol_refs[3]

\* the locals after a step that left the heap h; step is what the acceptance
\* step went by, if the step was one
SAWith(h, current, best, step, search) ==
    /\ SAHeap(Collect(h, <<solution, current, best>>, <<>>))
    /\ hist' = [best_cost |-> sols[best_solution].cost, step |-> step,
                search |-> search]
    /\ UNCHANGED <<instance, sequence_arg, sa>>

SANoted(h, current, best, step) == SAWith(h, current, best, step, NoSearch)

SAState(h, current, best) == SANoted(h, current, best, NoStep)

\* an operator raised: solve ends with the error
Crash(r) ==
    /\ SAState(r.heap, current_solution, best_solution)
    /\ pc' = "raised"
    /\ raised' = r.raised
    /\ result' = None

\* the previous current solution, the candidate apply returned, delta, the
\* outcome of the draw (random_r is drawn for delta > 0 only) and whether
\* apply returned its input
Step(r, d, draw) ==
    [before |-> Deref(Heap, current_solution),
     candidate |-> Deref(r.heap, r.solution),
     delta |-> d, draw |-> d > 0 /\ draw,
     fell_back |-> r.solution = current_solution]

Decided(r, d, draw) ==
    SANoted(r.heap, IF accepted(d, draw) THEN r.solution ELSE current_solution,
            best_solution, Step(r, d, draw))

\* lines 90-105: the candidate becomes current_solution, or not
Accepted(r, draw) ==
    IF r.raised # NoError THEN Crash(r)
    ELSE /\ Decided(r, delta(penalized(r.heap, r.solution, sa.P),
                             penalized(Heap, current_solution, sa.P)), draw)
         /\ pc' = "update"
         /\ UNCHANGED <<raised, result>>

\* lines 65-105: i_count += 1, a random operator is applied to
\* current_solution and the acceptance step is taken
MicroIteration ==
    /\ pc = "loop"
    /\ i_count' = i_count + 1
    /\ \E random_op \in 1..Len(operators) :
         \E sample \in operator_samples(Heap, Inst, operators[random_op],
                                        current_solution) :
           \E draw \in BOOLEAN :
              Accepted(operator_apply(Heap, Inst, operators[random_op],
                                      current_solution, sample), draw)
    /\ UNCHANGED <<n_count, current_temp>>

\* lines 107-122: best_solution = current_solution and n_count = 0, if the
\* current solution improves on the best one
UpdateBest ==
    /\ pc = "update"
    /\ IF improves(penalized(Heap, current_solution, sa.P),
                   sols[best_solution].cost, sols[current_solution].feasible)
       THEN /\ SAState(Heap, current_solution, current_solution)
            /\ n_count' = 0
       ELSE /\ SAState(Heap, current_solution, best_solution)
            /\ n_count' = n_count
    /\ pc' = "cool"
    /\ UNCHANGED <<i_count, current_temp, raised, result>>

\* what the local search went by: best_solution before it, the Solution the
\* first operator returned, the one the second operator was applied to, and
\* the Solution and the flag the second operator returned
Search(first, r) ==
    [ran |-> TRUE,
     best |-> Deref(Heap, best_solution),
     first |-> Deref(first.heap, first.solution),
     input |-> Deref(first.heap, second_input(first, best_solution)),
     last |-> Deref(r.heap, r.solution),
     last_feasible |-> r.feasible]

\* lines 155-183: the result of the second operator is the current solution;
\* it is the best one too if it came back feasible and costs less
SearchedTwice(first, r) ==
    IF r.raised # NoError THEN Crash(r)
    ELSE /\ SAWith(r.heap, search_result(r, current_solution),
                   IF lowers(r.heap.sols[r.solution].cost,
                             sols[best_solution].cost, r.feasible)
                   THEN r.solution ELSE best_solution,
                   NoStep, Search(first, r))
         /\ pc' = "exit"
         /\ UNCHANGED <<raised, result>>

\* lines 146-155, 170: the first operator is applied to best_solution, the
\* second to its result or to best_solution
SearchedOnce(r) ==
    IF r.raised # NoError THEN Crash(r)
    ELSE \E sample \in operator_samples(r.heap, Inst, local_search[2],
                                        second_input(r, best_solution)) :
            SearchedTwice(r, operator_apply(r.heap, Inst, local_search[2],
                                            second_input(r, best_solution), sample))

\* lines 124-183: at i_count == I the counters are updated, the temperature
\* is cooled and the local search is run on best_solution
CoolingStep ==
    /\ pc = "cool"
    /\ i_count = I
    /\ i_count' = 0
    /\ n_count' = n_count + 1
    /\ current_temp' = cooled(sa.a, current_temp)
    /\ \E sample \in operator_samples(Heap, Inst, local_search[1], best_solution) :
          SearchedOnce(operator_apply(Heap, Inst, local_search[1], best_solution,
                                      sample))

\* lines 185-188 and the while condition: return best_solution, or go on
ExitTest ==
    /\ \/ pc = "exit"
       \/ pc = "cool" /\ i_count # I
    /\ SAState(Heap, current_solution, best_solution)
    /\ IF ~above(current_temp, sa.TF) \/ n_count >= sa.Nnon_improving
       THEN pc' = "returned" /\ result' = best_solution
       ELSE pc' = "loop" /\ result' = None
    /\ UNCHANGED <<i_count, n_count, current_temp, raised>>

NextSA == MicroIteration \/ UpdateBest \/ CoolingStep \/ ExitTest

SpecSA == InitSA /\ [][NextSA]_vars

-----------------------------------------------------------------------------
(* Properties of the evaluator, under SpecEval *)

\* the nodes of the list handed to set_solution
ArgNodes == NodesOfList(Inst, lists[sequence_arg])

Dist(a, b) == get_distance(Inst, a, b)

\* the cost the end-to-end scenario expects of [D1, C1, C2, Break, C3, C4, D2]:
\* the opening cost of D1, two route setups and both routes out and back
ScenarioExpectedCost(n) ==
    n[1].cost + 2 * Inst.route_setup_cost
    + Dist(n[1], n[2]) + Dist(n[2], n[3]) + Dist(n[3], n[1])
    + Dist(n[1], n[5]) + Dist(n[5], n[6]) + Dist(n[6], n[1])

\* C1: in the end-to-end scenario (2 depots covering all demand, 4 customers,
\* vehicle capacity = the demand of two customers), set_solution on
\* [D1, C1, C2, Break, C3, C4, D2] leaves feasible = True and the cost of D1's
\* opening, two route setups and both routes with their return legs to D1.
C1_ScenarioQuality ==
    (pc = "set_solution" /\ Inst \in ScenarioInstances)
        => get_quality(Heap, solution) = <<ScenarioExpectedCost(ArgNodes), TRUE>>

\* C2: after set_solution on a sequence with a customer before the first depot
\* the solution is marked invalid and get_quality returns (infinity, False).
C2_InvalidSequenceRejected ==
    (pc = "set_solution" /\ ~valid_scan(ArgNodes, 1, FALSE))
        => /\ ~sols[solution].is_valid
           /\ get_quality(Heap, solution) = <<Infinity, FALSE>>

\* the demand of the customers from position i up to the next depot
RECURSIVE BlockDemand(_, _)
BlockDemand(nodes, i) ==
    IF i > Len(nodes) \/ nodes[i].type = DPT THEN 0
    ELSE (IF nodes[i].type = CSTMR THEN nodes[i].demand ELSE 0)
         + BlockDemand(nodes, i + 1)

\* every depot's block asks for no more than the depot's capacity
BlocksFit(nodes) ==
    \A i \in 1..Len(nodes) :
        nodes[i].type = DPT => BlockDemand(nodes, i + 1) <= nodes[i].capacity

IsNoBreak(n) == n.type # DZR

StripBreaks(nodes) == SelectSeq(nodes, IsNoBreak)

\* the evaluator has run on the sequence handed to set_solution
Evaluated == pc = "set_solution" /\ raised = NoError /\ sols[solution].is_valid

\* C7: for every valid sequence the cached feasible flag is True exactly when
\* every depot block of the reduced sequence asks for at most the depot's
\* capacity; the vehicle capacity and where the route breaks stand do not
\* matter (the flag is the same with every marker taken out).
C7_FeasibleIffBlocksFit ==
    (Evaluated /\ valid_scan(ArgNodes, 1, FALSE))
        => /\ sols[solution].feasible <=> BlocksFit(reduce_list(ArgNodes))
           /\ sols[solution].feasible <=> BlocksFit(StripBreaks(ArgNodes))

\* a valid sequence with a route break, a customer after another customer and
\* a block over its depot's capacity has been evaluated
C7_Witness ==
    /\ Evaluated /\ valid_scan(ArgNodes, 1, FALSE)
    /\ ~sols[solution].feasible
    /\ \E i \in 1..Len(ArgNodes) : ArgNodes[i].type = DZR
    /\ \E i \in 1..(Len(ArgNodes) - 1) :
          ArgNodes[i].type = CSTMR /\ ArgNodes[i + 1].type = CSTMR

\* the positions of the depots not immediately followed by a customer in the
\* reduced sequence (trimmed depots included)
IdleIn(nodes, r) ==
    {i \in 1..Len(nodes) :
        /\ nodes[i].type = DPT
        /\ ~\E j \in 1..(Len(r) - 1) : r[j] = nodes[i] /\ r[j + 1].type = CSTMR}

IdleDepots(nodes) == IdleIn(nodes, reduce_list(nodes))

\* the (cost, feasible) the evaluator gives a sequence of nodes
Quality(q) == <<q.cost, q.feasible>>

Evaluate(nodes) == Quality(calculate_cost(Inst, nodes, TRUE, 0))

\* C8: a depot not immediately followed by a customer in the reduced sequence
\* contributes 0 to the cost and nothing to feasibility: the sequence without
\* that depot evaluates to the same (cost, feasible).
C8_IdleDepotCostsNothing ==
    Evaluated =>
        \A i \in IdleDepots(ArgNodes) :
            get_quality(Heap, solution) = Evaluate(Pop(ArgNodes, i - 1))

\* a sequence with an idle depot and a served one has been evaluated
C8_Witness ==
    /\ Evaluated
    /\ IdleDepots(ArgNodes) # {}
    /\ sols[solution].cost > 0

-----------------------------------------------------------------------------
(* Properties of the operators, under SpecOps *)

\* the sequence of the Solution apply was called on, as the caller noted it
\* before the call
BeforeNodes == NodesOfList(Inst, hist.before.sequence)

\* the sequence of the Solution apply returned
ReturnedSequence == Deref(Heap, result.solution).sequence

ReturnedNodes == NodesOfList(Inst, ReturnedSequence)

\* C3: if the edited sequence has a customer before the first depot, apply
\* returns the input Solution itself with the input's cached feasible flag;
\* so a Solution returned for a valid input is valid, and along any chain of
\* applications that starts from a valid Solution the caller's Solution is valid.
C3_InvalidEditReturnsInput ==
    /\ (pc = "applied" /\ hist.edited # NoEdit
          /\ CustomerBeforeDepot(NodesOfList(Inst, hist.edited)))
        => (result.solution = solution /\ result.feasible = hist.before.feasible)
    /\ (pc = "applied" /\ ~CustomerBeforeDepot(BeforeNodes))
        => ~CustomerBeforeDepot(ReturnedNodes)
    /\ hist.valid => ~CustomerBeforeDepot(NodesOfSolution(Heap, Inst, solution))

C3_Witness ==
    /\ pc = "applied"
    /\ hist.valid
    /\ hist.edited # NoEdit
    /\ CustomerBeforeDepot(NodesOfList(Inst, hist.edited))
    /\ result.solution = solution
    /\ ~result.feasible

\* C4: after apply returned, with a new candidate or with the input itself,
\* the input's sequence, cost, feasible flag and validity flag are what they
\* were before the call.
C4_InputUnchanged ==
    pc = "applied" => Deref(Heap, solution) = hist.before

C4_Witness ==
    /\ pc = "applied"
    /\ result.solution # solution
    /\ ReturnedSequence # hist.before.sequence
    /\ get_quality(Heap, result.solution) # get_quality(Heap, solution)

Count(s, x) == Cardinality({i \in 1..Len(s) : s[i] = x})

IsPermutation(s, t) ==
    /\ Len(s) = Len(t)
    /\ \A x \in Range(s) \cup Range(t) : Count(s, x) = Count(t, x)

\* C5: the returned Solution's sequence is a permutation of the input's and
\* its pool of dummy zeros is empty; so along any chain of applications the
\* sequence holds exactly the nodes of the first sequence, each once.
C5_ReturnsPermutation ==
    /\ pc = "applied"
        => /\ IsPermutation(ReturnedSequence, hist.before.sequence)
           /\ Deref(Heap, result.solution).dummy_zeros = <<>>
    /\ Range(Deref(Heap, solution).sequence) = hist.nodes
    /\ Len(Deref(Heap, solution).sequence) = Cardinality(hist.nodes)

C5_Witness ==
    /\ pc = "applied"
    /\ hist.op = "SWAP"
    /\ result.solution # solution
    /\ ReturnedSequence # hist.before.sequence
    /\ \E i \in 1..Len(ReturnedNodes) : ReturnedNodes[i].type = DZR

\* the operator finds fewer than 2 candidates in the sequence: Swap fewer than
\* 2 nodes, Insert fewer than 2 depots and customers, 2-Opt no depot with 2
\* customers
FewCandidates(op, nodes) ==
    \/ op = "SWAP" /\ Len(nodes) < 2
    \/ op = "INSERT" /\ Len(insert_candidates(nodes)) < 2
    \/ op = "2-OPT" /\ candidate_depots(nodes, 0) = <<>>

\* C6: applied to a Solution with fewer than 2 eligible candidates, the empty
\* sequence and a single node included, each operator returns the input's
\* sequence with the input's cached feasible flag and raises no error.
C6_FewCandidatesFallBack ==
    (pc \in {"applied", "raised"} /\ FewCandidates(hist.op, BeforeNodes))
        => /\ raised = NoError
           /\ ReturnedSequence = hist.before.sequence
           /\ result.feasible = hist.before.feasible

-----------------------------------------------------------------------------
(* Properties of the solver, under SpecSA *)

\* C9: with a in (0,1), T0 > TF > 0 and I >= 1, solve terminates whatever its
\* random choices are, and it does so by returning best_solution: the loop
\* never ends in an error instead.
C9_SolveReturns == pc # "raised" /\ raised = NoError

\* C10: the cost of best_solution never increases from one step to the next
\* (it changes only to a lower value), and the Solution solve returns costs
\* no more than the initial solution with its penalty.
C10_BestCostNeverIncreases ==
    /\ sols[best_solution].cost <= hist.best_cost
    /\ pc = "returned" => sols[result].cost <= penalized(Heap, solution, sa.P)

C10_Witness ==
    /\ pc = "returned"
    /\ sols[result].cost < sols[solution].cost
    /\ sols[solution].feasible
    /\ n_count = sa.Nnon_improving
    /\ above(current_temp, sa.TF)

\* C11: best_solution is only ever replaced by a feasible solution, in the
\* best update and in the local search alike; so with a feasible initial
\* solution best_solution is feasible in every state and so is the Solution
\* solve returns.
C11_BestReplacedByFeasible ==
    /\ sols[best_solution].cost # hist.best_cost => sols[best_solution].feasible
    /\ sols[solution].feasible => sols[best_solution].feasible
    /\ (pc = "returned" /\ sols[solution].feasible) => sols[result].feasible

C11_Witness ==
    /\ pc = "exit"
    /\ sols[best_solution].cost < hist.best_cost
    /\ sols[best_solution].feasible
    /\ sols[solution].feasible
    /\ best_solution = current_solution

\* the fraction s is less than the fraction t
Less(s, t) == s[1] * t[2] < t[1] * s[2]

\* the fraction s is a times the fraction t
Times(s, a, t) == s[1] * a[2] * t[2] = a[1] * t[1] * s[2]

-----------------------------------------------------------------------------
(* Properties of the reduction                                             *)

\* no two adjacent dummy zeros, none directly after a depot, and the sequence
\* is empty or ends on a customer
IsReduced(nodes) ==
    /\ \A i \in 1..(Len(nodes) - 1) :
          nodes[i + 1].type = DZR => nodes[i].type = CSTMR
    /\ nodes # <<>> => nodes[Len(nodes)].type = CSTMR

Idempotent(reduced) == reduce_list(reduced) = reduced /\ IsReduced(reduced)

\* C13: reducing the reduced sequence gives the reduced sequence again, for
\* every sequence handed to the evaluator; the reduced sequence has no two
\* adjacent dummy zeros, none directly after a depot, and is empty or ends on
\* a customer.
C13_ReductionIdempotent == Idempotent(reduce_list(ArgNodes))

\* the evaluator has reduced a sequence with two adjacent dummy zeros, one
\* after a depot and a depot at the end
C13_Witness ==
    /\ Evaluated
    /\ \E i \in 1..(Len(ArgNodes) - 2) :
          /\ ArgNodes[i].type = DPT
          /\ ArgNodes[i + 1].type = DZR
          /\ ArgNodes[i + 2].type = DZR
    /\ ArgNodes[Len(ArgNodes)].type = DPT
    /\ ArgNodes[Len(ArgNodes) - 1].type = DZR
    /\ reduce_list(ArgNodes) # <<>>

-----------------------------------------------------------------------------
(* Properties of set_solution                                              *)

\* set_solution was called twice in a row with lists of the same nodes
CalledTwice ==
    /\ pc = "set_solution"
    /\ hist.pc = "set_solution"
    /\ hist.given = hist.held

\* C14: set_solution followed by get_quality, twice in a row with the same
\* sequence on the same Solution, returns the same (cost, feasible) pair both
\* times, and set_solution leaves the list it is given as it was.
C14_SetSolutionTwiceSameQuality ==
    /\ CalledTwice
         => (raised = NoError /\ get_quality(Heap, solution) = hist.quality)
    /\ pc = "set_solution"
         => (lists[sequence_arg] = hist.given
             /\ get_solution(Heap, solution) = sequence_arg)

\* every customer of the instance is in the sequence, which the evaluator
\* shortens and finds infeasible at a cost above zero
C14_Witness ==
    /\ CalledTwice
    /\ CustomerRefs(Inst) \subseteq Range(lists[sequence_arg])
    /\ sols[solution].is_valid
    /\ get_quality(Heap, solution)[1] > 0
    /\ ~get_quality(Heap, solution)[2]
    /\ reduce_list(ArgNodes) # ArgNodes

\* C15: the pair cached after set_solution(s) is the one the evaluator gives
\* for s alone: for a sequence with no customer before the first depot the
\* evaluated cost and flag of s, also on a Solution found invalid before.
C15_SetSolutionRevalidates ==
    (pc = "set_solution" /\ valid_scan(ArgNodes, 1, FALSE))
        => get_quality(Heap, solution) = Evaluate(ArgNodes)

\* C16: the evaluator never adds the None that _get_distance returns for a
\* dummy zero: set_solution raises nothing, on whatever sequence it runs.
C16_NoMarkerDistance == raised = NoError

\* the evaluator has run on a block with two dummy zeros between customers
C16_Witness ==
    /\ Evaluated
    /\ \E i \in 1..(Len(ArgNodes) - 4) :
          /\ ArgNodes[i].type = DPT
          /\ ArgNodes[i + 1].type = CSTMR
          /\ ArgNodes[i + 2].type = DZR
          /\ ArgNodes[i + 3].type = DZR
          /\ ArgNodes[i + 4].type = CSTMR
          /\ \A k \in 1..(i - 1) : ArgNodes[k].type # DPT
          /\ get_quality(Heap, solution)[1]
               >= Dist(ArgNodes[i + 1], ArgNodes[i]) + Dist(ArgNodes[i], ArgNodes[i + 4])

-----------------------------------------------------------------------------
(* SpecGreedy: GreedySolver.solve on an Instance.  hist holds the locals   *)
(* used_depots and assigned_customers as the loop left them.               *)

InitGreedy ==
    /\ instance \in {inst.name : inst \in GreedyInstances \cup DriverInstances}
    /\ lists = <<>>
    /\ sols = <<>>
    /\ solution = 0
    /\ sequence_arg = 0
    /\ pc = "solve"
    /\ result = None
    /\ raised = NoError
    /\ hist = <<>>
    /\ NoDriver

GreedyHeap(h, self) ==
    /\ lists' = h.lists
    /\ sols' = h.sols
    /\ solution' = self

AfterLoop(g, self) ==
    /\ GreedyHeap(g.heap, self)
    /\ hist' = [used_depots |-> g.used_depots,
                assigned_customers |-> g.assigned_customers]
    /\ pc' = IF g.hangs THEN "hangs" ELSE "assigned"

Assigning(made) == AfterLoop(outer_loop(Inst, made.ref, greedy_locals(made)), made.ref)

\* GreedySolver.solve up to the end of its while loop
GreedyAssign ==
    /\ pc = "solve"
    /\ Assigning(HRSTCSolution(Heap, Inst))
    /\ UNCHANGED <<instance, sequence_arg, result, raised, driver_vars>>

AfterFinish(r) ==
    /\ GreedyHeap(r.heap, solution)
    /\ raised' = r.raised
    /\ pc' = IF r.raised = NoError THEN "returned" ELSE "raised"
    /\ result' = IF r.raised = NoError THEN solution ELSE None

\* GreedySolver.solve after the loop: the depots not used are appended,
\* solution.finish_initial_solution(), return solution
GreedyFinish ==
    /\ pc = "assigned"
    /\ AfterFinish(finish_initial_solution(
                       append_unused_depots(Heap, solution, Inst.depots, 1),
                       Inst, solution))
    /\ UNCHANGED <<instance, sequence_arg, hist, driver_vars>>

NextGreedy == GreedyAssign \/ GreedyFinish

SpecGreedy == InitGreedy /\ [][NextGreedy]_vars

-----------------------------------------------------------------------------
(* SpecDistance: distance lookups on an Instance, by Instance.get_distance *)
(* and by Solution._get_distance.  hist holds the two nodes asked for.     *)

\* the depots and customers of inst and the dummy zeros of its Solutions
LookupNodes(inst) == {NodeOf(inst, ref) : ref \in RefsOf(inst)}

InitDistance ==
    /\ instance \in DOMAIN InstanceTable
    /\ lists = <<>>
    /\ sols = <<>>
    /\ solution = 0
    /\ sequence_arg = 0
    /\ pc = "Instance"
    /\ result = None
    /\ raised = NoError
    /\ hist = <<>>
    /\ NoDriver

Looked(node1, node2) ==
    /\ hist' = <<node1, node2>>
    /\ raised' = NoError
    /\ UNCHANGED <<instance, lists, sols, solution, sequence_arg, driver_vars>>

\* instance.get_distance(node1, node2): dict.get with the default float('inf')
GetDistance ==
    \E node1, node2 \in LookupNodes(Inst) :
        /\ result' = [is_none |-> FALSE, value |-> get_distance(Inst, node1, node2)]
        /\ pc' = "get_distance"
        /\ Looked(node1, node2)

\* solution._get_distance(node1, node2)
SolutionGetDistance ==
    \E node1, node2 \in LookupNodes(Inst) :
        /\ result' = get_distance_or_none(Inst, node1, node2)
        /\ pc' = "_get_distance"
        /\ Looked(node1, node2)

NextDistance == GetDistance \/ SolutionGetDistance

SpecDistance == InitDistance /\ [][NextDistance]_vars

-----------------------------------------------------------------------------
(* Properties of the distance lookup                                       *)

\* a lookup the distance table has no entry for
Absent(node1, node2) ==
    \/ node1.type = DZR
    \/ node2.type = DZR
    \/ <<node1, node2>> \notin DOMAIN Inst.distance_matrix

\* C17: a lookup on the Instance with a dummy zero as an argument, or with a
\* pair the distance table does not hold (a node with itself included), fails
\* with an error; it returns no number.
C17_AbsentPairFails ==
    (pc = "get_distance" /\ Absent(hist[1], hist[2])) => raised # NoError

-----------------------------------------------------------------------------
(* Properties of the greedy solver                                         *)

\* C18: in the sequence of the Solution the greedy solver returns every
\* customer of the instance is there exactly once, no customer is before the
\* first depot, and every dummy zero is in the sequence or in the pool.
C18_GreedyPlacesEveryCustomer ==
    pc = "returned"
        => /\ \A c \in CustomerRefs(Inst) :
                 Count(lists[get_solution(Heap, result)], c) = 1
           /\ ~CustomerBeforeDepot(NodesOfSolution(Heap, Inst, result))
           /\ \A z \in Range(create_dummy_zeros(Inst)) :
                 Count(lists[get_solution(Heap, result)] \o sols[result].dummy_zeros, z) = 1

\* the current solution is feasible and its penalized cost is below the
\* penalized cost of the best one
ShouldReplace ==
    /\ sols[current_solution].feasible
    /\ penalized(Heap, current_solution, sa.P) < penalized(Heap, best_solution, sa.P)

\* C19: in the best update the current solution becomes the best one and
\* n_count is reset to 0 exactly when the current solution is feasible and its
\* penalized cost is below the best one's penalized cost, the penalty P added
\* to the cost of an infeasible solution for the one as for the other.
C19_BestUpdateOnPenalizedCost ==
    [][pc = "update"
         => IF ShouldReplace
            THEN /\ Deref(Heap', best_solution') = Deref(Heap, current_solution)
                 /\ n_count' = 0
            ELSE /\ Deref(Heap', best_solution') = Deref(Heap, best_solution)
                 /\ n_count' = n_count]_vars

\* C20: after the acceptance step the current solution is the candidate the
\* operator returned or the previous current solution: the candidate when
\* delta <= 0, and for delta > 0 the candidate only if the draw fell below
\* exp(-delta / (K * T)); when the operator returned its input, delta is 0
\* and the current solution is the one it was.
C20_AcceptanceStep ==
    pc = "update"
        => /\ Deref(Heap, current_solution) \in {hist.step.candidate, hist.step.before}
           /\ hist.step.delta <= 0
                => Deref(Heap, current_solution) = hist.step.candidate
           /\ (hist.step.delta > 0 /\ ~hist.step.draw)
                => Deref(Heap, current_solution) = hist.step.before
           /\ hist.step.fell_back
                => (hist.step.delta = 0
                    /\ Deref(Heap, current_solution) = hist.step.before)

\* a candidate of a higher penalized cost was accepted on the draw
C20_Witness ==
    /\ pc = "update"
    /\ hist.step.delta > 0
    /\ hist.step.draw
    /\ ~hist.step.fell_back
    /\ Deref(Heap, current_solution) = hist.step.candidate
    /\ hist.step.candidate # hist.step.before

-----------------------------------------------------------------------------
(* Properties of the local search and the counters                         *)

\* the local search ran as the code has it: Swap on best_solution, Insert on
\* the result of Swap if that is feasible and on best_solution if not
PassRan ==
    /\ hist.search.ran
    /\ IsPermutation(hist.search.first.sequence, hist.search.best.sequence)
    /\ hist.search.input =
          IF hist.search.first.feasible THEN hist.search.first
          ELSE hist.search.best
    /\ IsPermutation(hist.search.last.sequence, hist.search.input.sequence)

\* C21 as amended: at every cooling step one local search pass runs:
\* Swap is applied to best_solution, Insert to the result of Swap if that is
\* feasible and to best_solution itself if not; in both cases the result of
\* Insert replaces best_solution exactly when it is feasible and costs less.
C21_LocalSearchPass ==
    /\ pc = "exit" <=> hist.search.ran
    /\ pc = "exit"
         => /\ PassRan
            /\ Deref(Heap, best_solution) =
                  IF hist.search.last_feasible
                     /\ hist.search.last.cost < hist.search.best.cost
                  THEN hist.search.last ELSE hist.search.best

\* C21 as stated: when the result of Swap is feasible, the result of Insert
\* replaces best_solution if it costs less, feasible or not.
C21_LowerCostReplaces ==
    (pc = "exit" /\ hist.search.first.feasible
        /\ hist.search.last.cost < hist.search.best.cost)
        => Deref(Heap, best_solution) = hist.search.last

\* both branches were taken with a result that replaced best_solution
C21_Witness ==
    /\ pc = "exit"
    /\ hist.search.first.feasible
    /\ hist.search.first # hist.search.best
    /\ hist.search.last # hist.search.first
    /\ hist.search.last.cost < hist.search.best.cost
    /\ Deref(Heap, best_solution) = hist.search.last

\* C22: n_count counts the cooling steps in a row without a new best
\* solution: when solve is about to return because n_count has reached
\* Nnon_improving >= 1 (the temperature still above TF), best_solution was
\* not replaced in the cooling step just taken, whose local search is part
\* of the last Nnon_improving cooling periods.
C22_ReturnsAfterNoImprovement ==
    (pc = "exit" /\ sa.Nnon_improving >= 1 /\ n_count >= sa.Nnon_improving
        /\ above(current_temp, sa.TF))
        => Deref(Heap, best_solution) = hist.search.best

\* C23: after every cooling step current_solution is the Solution the last
\* operator call of the local search returned, feasible or not, cheaper than
\* best_solution or not.
C23_CurrentIsSearchResult ==
    pc = "exit" => Deref(Heap, current_solution) = hist.search.last

\* the local search left an infeasible Solution that is not the best one,
\* and it is the current solution
C23_Witness ==
    /\ pc = "exit"
    /\ ~hist.search.last_feasible
    /\ hist.search.last # hist.search.best
    /\ Deref(Heap, best_solution) = hist.search.best
    /\ Deref(Heap, current_solution) = hist.search.last


-----------------------------------------------------------------------------
(* Properties of the operators' edits                                      *)

\* edited is sequence with the nodes at two distinct positions exchanged and
\* every other position unchanged
ExchangedAtTwo(sequence, edited) ==
    \E index1, index2 \in 0..(Len(sequence) - 1) :
        /\ index1 # index2
        /\ edited = [k \in 1..Len(sequence) |->
                        IF k = index1 + 1 THEN sequence[index2 + 1]
                        ELSE IF k = index2 + 1 THEN sequence[index1 + 1]
                        ELSE sequence[k]]

\* C24: whenever Swap edits a sequence, the candidate sequence is the input
\* sequence with the nodes at two distinct positions exchanged and every
\* other position unchanged (the same position is never picked twice).
C24_SwapExchangesTwoPositions ==
    (hist.op = "SWAP" /\ hist.edited # NoEdit)
        => ExchangedAtTwo(hist.before.sequence, hist.edited)

\* the 0-based position of name in sequence (names are not repeated)
PositionOf(sequence, name) ==
    CHOOSE i \in 0..(Len(sequence) - 1) : sequence[i + 1] = name

\* edited is sequence with the node at index1 taken out and put back
\* immediately before the node that stood at index2
MovedBefore(sequence, edited, index1, index2) ==
    /\ Len(edited) = Len(sequence)
    /\ Pop(edited, PositionOf(edited, sequence[index1 + 1])) = Pop(sequence, index1)
    /\ PositionOf(edited, sequence[index1 + 1]) + 1
          = PositionOf(edited, sequence[index2 + 1])

\* some two distinct positions of depots or customers give edited
InsertedAtTwo(nodes, sequence, edited) ==
    \E index1, index2 \in 0..(Len(sequence) - 1) :
        /\ index1 # index2
        /\ nodes[index1 + 1].type # DZR
        /\ nodes[index2 + 1].type # DZR
        /\ MovedBefore(sequence, edited, index1, index2)

\* C25: whenever Insert edits a sequence, the candidate is the input with one
\* depot or customer moved to stand immediately before another depot or
\* customer at a different position, all other nodes (dummy zeros included)
\* keeping their relative order.
C25_InsertMovesBeforeSecond ==
    (hist.op = "INSERT" /\ hist.edited # NoEdit)
        => InsertedAtTwo(NodesOfList(Inst, hist.before.sequence),
                         hist.before.sequence, hist.edited)

\* Insert moved a node across a dummy zero
C25_Witness ==
    /\ hist.op = "INSERT"
    /\ hist.edited # NoEdit
    /\ hist.edited # hist.before.sequence
    /\ \E k \in 1..Len(hist.edited) :
          /\ hist.edited[k] # hist.before.sequence[k]
          /\ NodesOfList(Inst, hist.edited)[k].type = DZR

\* the number of customers from position j (0-based) up to the next depot or
\* the end of nodes
RECURSIVE CustomersFrom(_, _)
CustomersFrom(nodes, j) ==
    IF j >= Len(nodes) THEN 0
    ELSE IF At(nodes, j).type = DPT THEN 0
    ELSE (IF At(nodes, j).type = CSTMR THEN 1 ELSE 0) + CustomersFrom(nodes, j + 1)

\* some depot has two or more customers in its block
HasTwoCustomerBlock(nodes) ==
    \E i \in 0..(Len(nodes) - 1) :
        At(nodes, i).type = DPT /\ CustomersFrom(nodes, i + 1) >= 2

\* C26: 2-Opt falls back to its input for lack of candidates exactly when no
\* depot has 2 or more customers in its block (from the depot up to the next
\* depot or the end of the sequence, a customer that is the last element
\* included); otherwise it edits the sequence.
C26_TwoOptCandidateBlocks ==
    hist.op = "2-OPT"
        => (hist.edited = NoEdit
              <=> ~HasTwoCustomerBlock(NodesOfList(Inst, hist.before.sequence)))

-----------------------------------------------------------------------------
(* Properties of the evaluator: implicit breaks, index ranges              *)

\* the vehicle capacity left after node, vc being left before it and the
\* node before it being a customer or not
CapacityAfter(node, vc, after_customer) ==
    IF node.type # CSTMR THEN Inst.vehicle_capacity
    ELSE IF after_customer /\ vc - node.demand < 0
         THEN Inst.vehicle_capacity - node.demand
         ELSE vc - node.demand

\* nodes from position i on, with a dummy zero put before every customer that
\* follows a customer and asks for more than the vehicle capacity left; k
\* numbers the dummy zeros put in
RECURSIVE WithBreaks(_, _, _, _)
WithBreaks(nodes, i, vc, k) ==
    IF i > Len(nodes) THEN <<>>
    ELSE IF /\ i > 1
            /\ nodes[i].type = CSTMR
            /\ nodes[i - 1].type = CSTMR
            /\ vc - nodes[i].demand < 0
         THEN <<DummyZero(DummyName(k), 0, 0), nodes[i]>>
                  \o WithBreaks(nodes, i + 1, CapacityAfter(nodes[i], vc, TRUE), k + 1)
         ELSE <<nodes[i]>>
                  \o WithBreaks(nodes, i + 1,
                                CapacityAfter(nodes[i], vc,
                                              i > 1 /\ nodes[i - 1].type = CSTMR), k)

ExplicitBreaks(nodes) ==
    WithBreaks(nodes, 1, Inst.vehicle_capacity, number_dummy_zeros(Inst))

\* C27: for every valid sequence, the sequence with a dummy zero put between
\* two consecutive customers at each point where the evaluator forces an
\* implicit break evaluates to the same cost and the same feasible flag.
C27_ImplicitBreakAsExplicit ==
    (Evaluated /\ valid_scan(ArgNodes, 1, FALSE))
        => get_quality(Heap, solution) = Evaluate(ExplicitBreaks(ArgNodes))

\* a valid sequence with an implicit break has been evaluated
C27_Witness ==
    /\ Evaluated /\ valid_scan(ArgNodes, 1, FALSE)
    /\ Len(ExplicitBreaks(ArgNodes)) > Len(ArgNodes)
    /\ sols[solution].cost > 0
    /\ sols[solution].cost < Infinity
    /\ get_quality(Heap, solution) = Evaluate(ExplicitBreaks(ArgNodes))

\* the index at which the backward scan of the block of the depot at idx starts
ScanStart(r, end_index) == IF end_index >= Len(r) THEN end_index - 1 ELSE end_index

\* the backward scan for the last customer of the block from idx to end_index
\* stops at a customer inside the block
ScanStopsInside(r, idx, end_index, scan) ==
    /\ scan.raised = NoError
    /\ idx < scan.idx
    /\ scan.idx < end_index
    /\ At(r, scan.idx).type = CSTMR

BlockInRange(r, idx, end_index) ==
    ScanStopsInside(r, idx, end_index, last_customer_scan(r, ScanStart(r, end_index)))

\* in the reduced sequence r every depot has an element after it, and every
\* block the segmentation loop opens has its last customer inside
ReadsInRange(r) ==
    \A idx \in 0..(Len(r) - 1) :
        At(r, idx).type = DPT
            => /\ InRange(r, idx + 1)
               /\ opens_block(r, idx)
                     => BlockInRange(r, idx, next_depot_idx(r, idx + 1))

\* C28: for every sequence handed to set_solution, valid or not, empty or
\* without customers, the evaluation raises no IndexError: in the reduced
\* sequence the element after a depot exists, and the backward scan for a
\* block's last customer stops at a customer inside the block.
C28_NoOutOfRange ==
    pc = "set_solution"
        => /\ raised # "IndexError"
           /\ ReadsInRange(reduce_list(ArgNodes))

\* the backward scan of some block has stepped over more than the next depot
StepsBack(r) ==
    \E idx \in 0..(Len(r) - 2) :
        /\ At(r, idx).type = DPT
        /\ opens_block(r, idx)
        /\ next_depot_idx(r, idx + 1) < Len(r)
        /\ last_customer_scan(r, next_depot_idx(r, idx + 1)).idx
              < next_depot_idx(r, idx + 1) - 1

\* a sequence that is not valid was evaluated, and in it a block whose last
\* customer is followed by a dummy zero and a depot
C28_Witness ==
    /\ pc = "set_solution"
    /\ raised = NoError
    /\ sols[solution].is_valid
    /\ ~valid_scan(ArgNodes, 1, FALSE)
    /\ sols[solution].cost > 0
    /\ StepsBack(reduce_list(ArgNodes))
    /\ ReadsInRange(reduce_list(ArgNodes))

-----------------------------------------------------------------------------
(* SpecBuild: a Solution built by Solution(instance), and the calls        *)
(* append_node(node), append_dummy_zero() and finish_initial_solution()    *)
(* on it, in any order.  hist holds the call made last and the fields the  *)
(* Solution had before it.                                                 *)

BuildInstances == EvalInstances

BuildHeap(h) ==
    /\ lists = h.lists
    /\ sols = h.sols

InitBuildWith(made) ==
    /\ BuildHeap(made.heap)
    /\ solution = made.ref

InitBuild ==
    /\ instance \in {inst.name : inst \in BuildInstances}
    /\ InitBuildWith(solution_init([lists |-> <<>>, sols |-> <<>>], Inst))
    /\ sequence_arg = 0
    /\ pc = "Solution"
    /\ result = None
    /\ raised = NoError
    /\ hist = [op |-> "none", before |-> None]
    /\ NoDriver

AfterCall(op, h) ==
    /\ lists' = h.lists
    /\ sols' = h.sols
    /\ pc' = op
    /\ hist' = [op |-> op, before |-> Deref(Heap, solution)]
    /\ UNCHANGED <<instance, solution, sequence_arg, result, driver_vars>>

\* the nodes of the sequence that are no dummy zeros
AppendedNodes(h, self) ==
    SelectSeq(NodesOfList(Inst, h.lists[get_solution(h, self)]), IsNoBreak)

\* solution.append_node(node), for a depot or customer not yet appended
AppendNode ==
    /\ raised = NoError
    /\ Len(AppendedNodes(Heap, solution)) < MaxBuildLen
    /\ \E node \in RefsOf(Inst) \ (Range(create_dummy_zeros(Inst))
                                     \cup Range(lists[get_solution(Heap, solution)])) :
          AfterCall("append_node", append_node(Heap, solution, node))
    /\ UNCHANGED raised

\* solution.append_dummy_zero()
AppendDummyZero ==
    /\ raised = NoError
    /\ AfterCall("append_dummy_zero", append_dummy_zero(Heap, solution))
    /\ UNCHANGED raised

Finished(r) ==
    /\ AfterCall("finish_initial_solution", r.heap)
    /\ raised' = r.raised

\* solution.finish_initial_solution()
FinishInitialSolution ==
    /\ raised = NoError
    /\ Finished(finish_initial_solution(Heap, Inst, solution))

NextBuild == AppendNode \/ AppendDummyZero \/ FinishInitialSolution

SpecBuild == InitBuild /\ [][NextBuild]_vars

-----------------------------------------------------------------------------
(* Properties of the pool of dummy zeros                                   *)

\* the dummy zeros among the node references refs, in order
RECURSIVE MarkersOf(_)
MarkersOf(refs) ==
    IF refs = <<>> THEN <<>>
    ELSE (IF NodeOf(Inst, Head(refs)).type = DZR THEN <<Head(refs)>> ELSE <<>>)
         \o MarkersOf(Tail(refs))

\* ceil(a / b) for naturals a and b > 0
CeilDiv(a, b) == CHOOSE n \in 0..a : n * b >= a /\ (n = 0 \/ (n - 1) * b < a)

NoneTwice(s) == \A i, j \in 1..Len(s) : s[i] = s[j] => i = j

\* append_dummy_zero took s from before: the first dummy zero of the pool went
\* to the end of the sequence, or nothing changed when the pool was empty
MovedOne(before, s) ==
    IF before.dummy_zeros = <<>>
    THEN s.sequence = before.sequence /\ s.dummy_zeros = <<>>
    ELSE /\ s.sequence = Append(before.sequence, Head(before.dummy_zeros))
         /\ s.dummy_zeros = Tail(before.dummy_zeros)

\* C29: after any calls of append_node, append_dummy_zero and
\* finish_initial_solution on a new Solution, the dummy zeros of the pool and
\* those of the sequence are together ceil(sum of demands / vehicle_capacity)
\* many and none occurs twice; append_dummy_zero moves one dummy zero from
\* the pool to the end of the sequence, and changes nothing when the pool is
\* empty.
C29_DummyZerosConserved ==
    /\ Len(sols[solution].dummy_zeros) + Len(MarkersOf(lists[get_solution(Heap, solution)]))
          = CeilDiv(aggregate_demands(Inst.customers, 1), Inst.vehicle_capacity)
    /\ NoneTwice(sols[solution].dummy_zeros \o MarkersOf(lists[get_solution(Heap, solution)]))
    /\ hist.op = "append_dummy_zero" => MovedOne(hist.before, Deref(Heap, solution))

\* append_dummy_zero has moved the last dummy zero of the pool behind nodes
\* and another dummy zero
C29_Witness ==
    /\ hist.op = "append_dummy_zero"
    /\ Len(hist.before.dummy_zeros) = 1
    /\ sols[solution].dummy_zeros = <<>>
    /\ Len(MarkersOf(lists[get_solution(Heap, solution)])) = 2
    /\ Len(lists[get_solution(Heap, solution)]) > 3

-----------------------------------------------------------------------------
(* Termination of the greedy solver                                        *)

\* C30: GreedySolver.solve terminates for every instance: its inner loop
\* never comes to a route break for a customer that does not fit an empty
\* vehicle standing at the depot, after which the same customer is selected
\* and found too large again, pass after pass.
C30_GreedyTerminates == pc # "hangs"
=============================================================================
